---------------------------- MODULE Spec2Model ----------------------------
(***************************************************************************)
(* Pulse generation engine of GPIO_AL: the software backend (_PulseSW and  *)
(* its older twin _SWPulse in Pulse.py), the hardware backend (_PulsePiHW  *)
(* and _HWPulse in Pulse.py), the parameter model (_computeParams) and the *)
(* dispatching controller (Pulse).                                         *)
(*                                                                         *)
(* Numbers.  Python floats are modelled as exact scaled integers:          *)
(*   frequency   in centi-Hertz  (100 Hz = 10000)                          *)
(*   duty cycle  in per-mille    (0.5 = 500, 50 (percent) = 50000)         *)
(*   time        in ticks of 100 ns (1 s = 10^7 ticks)                     *)
(* A frequency value keeps the kind of Python object that carries it       *)
(* ("int", "float", or "Hz" for a PObject with unit Hz) so that float()    *)
(* is a conversion and not the identity.                                   *)
(*                                                                         *)
(* Threads.  Thread 0 is the control thread (the caller).  Every           *)
(* threading.Timer is a thread of its own, numbered 1..MaxTimers.  Every   *)
(* method is executed statement by statement so that the interleavings     *)
(* CPython allows between the control thread and timer threads exist in    *)
(* the model.                                                              *)
(***************************************************************************)
EXTENDS Integers, Sequences, FiniteSets, TLC

VARIABLES
    env,      \* platform: PWM controller directory, config.txt, Pi model
    ctrl,     \* the Pulse controller object (Pulse.py)
    obj,      \* class of the backend object, "none" before construction
    par,      \* the backend's parameter fields (_bursts, _orgFreq, ...)
    sw,       \* private fields of the software backend
    pin,      \* the digital-output-pin collaborator (PinIO)
    hw,       \* private fields of the hardware backend
    dev,      \* the sysfs PWM channel (period, duty_cycle, enable)
    timers,   \* threading.Timer objects
    pc,       \* position of every thread in the method it executes
    call,     \* the call the control thread is executing
    res,      \* outcome of the last call that returned to the control thread
    thrExc,   \* exceptions that escaped from timer threads
    ops       \* number of calls made so far, per operation

vars == << env, ctrl, obj, par, sw, pin, hw, dev, timers, pc, call, res,
           thrExc, ops >>

----------------------------------------------------------------------------
(* Bounds of the model *)

MaxTimers == 4      \* Timer objects alive at the same time
MaxCycles == 2      \* high phases after which no further timer fires
MaxStarts == 2      \* start() calls the control thread makes
MaxStops == 2       \* stop() calls the control thread makes
MaxSets == 2        \* property assignments and reads the control thread makes
MaxGlitch == 1      \* device-file writes that fail with OSError
LogLen == 3         \* device-file writes the log of the channel keeps
MaxLifeGlitch == 2  \* failing device-file writes in the lifetime specification
MaxLifeStarts == 1  \* start() calls in the lifetime specification
MaxLifeStops == 1   \* stop() calls of the user in the lifetime specification
MaxLifeSets == 1    \* assignments to dutyCycle in the lifetime specification

(* Encodings and program constants *)

NoneVal == -1000            \* Python's None where a number is expected
PerMille == 1000            \* duty cycle 1.0
TicksPerCentiHz == 1000000000   \* period[ticks] = 10^9 / frequency[cHz]
FirstTimeCorrection == 4400 \* 0.000440 s
SWMaxFreq == 200000         \* 2000 Hz
HWMaxFreq == 500000000      \* 5_000_000 Hz
HWMinFreq == 10             \* 0.1 Hz
HWBurstMaxFreq == 1000000   \* 10000 Hz
ShortestBurstTime == 7500   \* 0.000750 s

Threads == 0 .. MaxTimers
TimerIds == 1 .. MaxTimers

----------------------------------------------------------------------------
(* Values *)

Freq(v, k) == [v |-> v, k |-> k]
NoFreq == [v |-> 0, k |-> "unset"]

\* float( frequency ): the number as a Python float
float(f) == [v |-> f.v, k |-> "float"]

\* floor( a * b / c ) without leaving 32 bits, for 0 <= b <= c
MulDiv(a, b, c) == (a \div c) * b + ((a % c) * b) \div c

\* 1 / frequency, in ticks
PeriodOf(f) == TicksPerCentiHz \div f.v

NoPar == [bursts |-> NoneVal, orgFreq |-> NoFreq, frequency |-> NoFreq,
          dutyCycle |-> 0, period |-> 0, highTime |-> 0, lowTime |-> 0]

\* dutyCycle / 100. for 1 < dutyCycle <= 100, else dutyCycle
NormalizeDutyCycle(d) ==
    IF d > PerMille /\ d <= 100 * PerMille THEN d \div 100 ELSE d

DutyCycleOk(d) == ~ (d < 0 \/ d > PerMille)

\* _PulseAPI._computeParams: the assignments made up to the raise, or all
computeParams(p, frequency, dutyCycle, bursts) ==
    LET p1 == [p EXCEPT !.bursts = bursts,
                        !.orgFreq = frequency,
                        !.frequency = float(frequency),
                        !.dutyCycle = NormalizeDutyCycle(dutyCycle)]
        period == PeriodOf(p1.frequency)
    IN  IF ~ DutyCycleOk(p1.dutyCycle)
        THEN [p |-> p1, err |-> "GPIOError_dutyCycle"]
        ELSE [p |-> [p1 EXCEPT !.period = period,
                               !.highTime = MulDiv(period, p1.dutyCycle, PerMille),
                               !.lowTime = MulDiv(period, PerMille - p1.dutyCycle,
                                                  PerMille)],
              err |-> "none"]

----------------------------------------------------------------------------
(* threading.Timer objects and threads *)

NoTimer == [st |-> "free", fn |-> "none"]

\* the object a name refers to is kept; a finished Timer nobody refers to is
\* forgotten
Gc(tm, refs) ==
    [t \in TimerIds |->
        IF tm[t].st = "dead" /\ t \notin refs THEN NoTimer ELSE tm[t]]

FreeIds(tm) == {t \in TimerIds : tm[t].st = "free"}

NewTimerId(tm) == CHOOSE t \in FreeIds(tm) : \A u \in FreeIds(tm) : t <= u

\* Timer.cancel(): a waiting timer never runs its function; a timer that is
\* already running or has finished is not affected
Cancel(tm, t) ==
    [tm EXCEPT ![t].st = CASE @ = "armed" -> "dead"
                           [] @ = "new" -> "newc"
                           [] OTHER -> @]

\* Timer.start(); starting a thread twice raises RuntimeError
CanStartTimer(tm, t) == tm[t].st \in {"new", "newc"}

StartTimer(tm, t) ==
    [tm EXCEPT ![t].st = IF @ = "new" THEN "armed" ELSE "dead"]

Alive(tm) == {t \in TimerIds : tm[t].st \in {"new", "armed", "run"}}

\* a call of the control thread: the operation, its arguments f (a frequency)
\* and n (a number), the value val passed on to the backend, the error it
\* raised, the class of the object called (cls), and what the caller saw
\* before it: the backend Idle (idle0), the HIGH writes made (w0), the
\* parameters (par0), the previous call (prev) and its frequency (prevF)
NoCall == [op |-> "none", f |-> NoFreq, n |-> 0, val |-> 0, err |-> "none",
           cls |-> "none", idle0 |-> FALSE, w0 |-> 0, par0 |-> NoPar,
           prev |-> "none", prevF |-> NoFreq]

IsSW == obj \in {"_PulseSW", "_SWPulse"}
IsHW == obj \in {"_PulsePiHW", "_HWPulse"}

\* BackendState Idle: nothing is driving the output
BackendIdle ==
    /\ Alive(timers) = {}
    /\ \A th \in Threads : pc[th] = "idle"
    /\ IsHW => dev.enable = 0

Goto(th, label) ==
    /\ pc' = [pc EXCEPT ![th] = label]
    /\ UNCHANGED << call, res, thrExc >>

\* the method thread th executes returns (err = "none") or raises err: the
\* control thread gets the outcome of its call, a timer thread ends
Finish(th, err, tm, refs) ==
    /\ pc' = [pc EXCEPT ![th] = "idle"]
    /\ timers' = Gc(IF th = 0 THEN tm ELSE [tm EXCEPT ![th].st = "dead"], refs)
    /\ res' = IF th = 0 THEN [call EXCEPT !.err = err] ELSE res
    /\ call' = IF th = 0 THEN NoCall ELSE call
    /\ thrExc' = IF th > 0 /\ err # "none" THEN thrExc \cup {err} ELSE thrExc

\* where stop() returns to when thread th has executed its last statement:
\* to the caller of the control thread or the end of a timer thread
\* ("return"), or to the method of the control thread that called it: the
\* bursts setter, Pulse.__exit__, Pulse.__del__, or the backend's __del__
StopReturnsTo(th) ==
    IF th # 0 THEN "return"
    ELSE CASE call.op = "bursts" -> "B2"
           [] call.op = "exit" -> "PX2"
           [] call.op = "pdel" -> "PDel2"
           [] call.op = "del" -> IF IsSW THEN "DS1" ELSE "DH1"
           [] OTHER -> "return"

\* self.__pin.level = level.  Of the sequence of writes the pin has seen,
\* the model keeps the number of HIGH and of LOW writes, the last level
\* written, and whether the writes so far alternate beginning with HIGH
WritePin(level) ==
    [pin EXCEPT !.level = level,
                !.nHigh = IF level = "HIGH" THEN @ + 1 ELSE @,
                !.nLow = IF level = "LOW" THEN @ + 1 ELSE @,
                !.last = level,
                !.alt = @ /\ IF pin.last = "none" THEN level = "HIGH"
                             ELSE level # pin.last]

----------------------------------------------------------------------------
(* Software backend: _PulseSW (and _SWPulse of Pulse.py) *)

\* a deadline taken from the time of the call (time runs from start()), not
\* from the deadline before
nextTriggerFromNow(deadline, interval) == 0 + interval

\* self.__nextTrigger += interval
nextTriggerAfter(deadline, interval) == deadline + interval

\* a callback without the test of the done flag
neverDone(s) == FALSE

\* if self.__done: return
isDone(s) == s.done

\* __runHigh: if self.__done: return; self.__nextTrigger += self._highTime
runHigh1(th) ==
    /\ pc[th] = "H1"
    /\ IF isDone(sw)
       THEN /\ Finish(th, "none", timers, {sw.swTimer, hw.burstTimer})
            /\ UNCHANGED sw
       ELSE /\ sw' = [sw EXCEPT !.nextTrigger =
                                   nextTriggerAfter(@, par.highTime)]
            /\ Goto(th, "H2")
            /\ UNCHANGED timers
    /\ UNCHANGED << env, ctrl, obj, par, pin, hw, dev, ops >>

\* self.__pin.level = PinIO.Level.HIGH
runHigh2(th) ==
    /\ pc[th] = "H2"
    /\ pin' = WritePin("HIGH")
    /\ Goto(th, "H3")
    /\ UNCHANGED << env, ctrl, obj, par, sw, hw, dev, timers, ops >>

\* self.__swTimer = threading.Timer( ..., self.__runLow )
runHigh3(th) ==
    /\ pc[th] = "H3"
    /\ FreeIds(timers) # {}
    /\ LET t == NewTimerId(timers)
       IN  /\ sw' = [sw EXCEPT !.swTimer = t]
           /\ timers' = Gc([timers EXCEPT ![t] = [st |-> "new", fn |-> "runLow"]],
                           {t, hw.burstTimer})
    /\ Goto(th, "H4")
    /\ UNCHANGED << env, ctrl, obj, par, pin, hw, dev, ops >>

\* self.__swTimer.start()
swTimerStart(th, next) ==
    IF sw.swTimer = 0
    THEN /\ Finish(th, "AttributeError", timers, {sw.swTimer, hw.burstTimer})
    ELSE IF ~ CanStartTimer(timers, sw.swTimer)
    THEN /\ Finish(th, "RuntimeError", timers, {sw.swTimer, hw.burstTimer})
    ELSE IF next = "return"
    THEN /\ Finish(th, "none", StartTimer(timers, sw.swTimer),
                   {sw.swTimer, hw.burstTimer})
    ELSE /\ timers' = Gc(StartTimer(timers, sw.swTimer),
                         {sw.swTimer, hw.burstTimer})
         /\ Goto(th, next)

runHigh4(th) ==
    /\ pc[th] = "H4"
    /\ swTimerStart(th, "H5")
    /\ UNCHANGED << env, ctrl, obj, par, sw, pin, hw, dev, ops >>

\* self.__burstCount += 1; return
runHigh5(th) ==
    /\ pc[th] = "H5"
    /\ sw' = [sw EXCEPT !.burstCount = @ + 1]
    /\ Finish(th, "none", timers, {sw.swTimer, hw.burstTimer})
    /\ UNCHANGED << env, ctrl, obj, par, pin, hw, dev, ops >>

\* __runLow: if self.__done: return; self.__nextTrigger += self._lowTime
runLow1(th) ==
    /\ pc[th] = "L1"
    /\ IF isDone(sw)
       THEN /\ Finish(th, "none", timers, {sw.swTimer, hw.burstTimer})
            /\ UNCHANGED sw
       ELSE /\ sw' = [sw EXCEPT !.nextTrigger =
                                   nextTriggerAfter(@, par.lowTime)]
            /\ Goto(th, "L2")
            /\ UNCHANGED timers
    /\ UNCHANGED << env, ctrl, obj, par, pin, hw, dev, ops >>

\* self.__pin.level = PinIO.Level.LOW
runLow2(th) ==
    /\ pc[th] = "L2"
    /\ pin' = WritePin("LOW")
    /\ Goto(th, "L3")
    /\ UNCHANGED << env, ctrl, obj, par, sw, hw, dev, timers, ops >>

\* if self.__burstCount == self._bursts: self.__done = True
runLow3(th) ==
    /\ pc[th] = "L3"
    /\ sw' = [sw EXCEPT !.done = IF sw.burstCount = par.bursts THEN TRUE ELSE @]
    /\ Goto(th, "L4")
    /\ UNCHANGED << env, ctrl, obj, par, pin, hw, dev, timers, ops >>

\* self.__swTimer = threading.Timer( ..., self.__runHigh )
runLow4(th) ==
    /\ pc[th] = "L4"
    /\ FreeIds(timers) # {}
    /\ LET t == NewTimerId(timers)
       IN  /\ sw' = [sw EXCEPT !.swTimer = t]
           /\ timers' = Gc([timers EXCEPT ![t] = [st |-> "new", fn |-> "runHigh"]],
                           {t, hw.burstTimer})
    /\ Goto(th, "L5")
    /\ UNCHANGED << env, ctrl, obj, par, pin, hw, dev, ops >>

\* self.__swTimer.start(); return
runLow5(th) ==
    /\ pc[th] = "L5"
    /\ swTimerStart(th, "return")
    /\ UNCHANGED << env, ctrl, obj, par, sw, pin, hw, dev, ops >>

\* _PulseSW.frequency setter on the new value (the unit check passes for
\* every value the model supplies)
swFrequencySet(p, s, value) ==
    IF float(value).v > SWMaxFreq
    THEN [p |-> p, s |-> s, err |-> "GPIOError_frequency"]
    ELSE LET period == PeriodOf(float(value))
         IN  [p |-> [p EXCEPT !.frequency = float(value), !.orgFreq = value,
                              !.period = period],
              s |-> [s EXCEPT !.high = MulDiv(period, p.dutyCycle, PerMille),
                              !.low = MulDiv(period, PerMille - p.dutyCycle,
                                             PerMille)],
              err |-> "none"]

\* _SWPulse.frequency setter (Pulse.py): the test is on the stored frequency
legacySwFrequencySet(p, s, value) ==
    IF p.frequency.v > SWMaxFreq
    THEN [p |-> p, s |-> s, err |-> "GPIOError_frequency"]
    ELSE LET period == PeriodOf(value)
         IN  [p |-> [p EXCEPT !.frequency = value, !.period = period],
              s |-> [s EXCEPT !.high = MulDiv(period, p.dutyCycle, PerMille),
                              !.low = MulDiv(period, PerMille - p.dutyCycle,
                                             PerMille)],
              err |-> "none"]

\* start(): self.frequency = self._frequency
swStart1 ==
    /\ pc[0] = "S1"
    /\ IsSW
    /\ LET r == IF obj = "_PulseSW"
                THEN swFrequencySet(par, sw, par.frequency)
                ELSE legacySwFrequencySet(par, sw, par.frequency)
       IN  /\ par' = r.p
           /\ sw' = r.s
           /\ IF r.err # "none"
              THEN Finish(0, r.err, timers, {sw.swTimer, hw.burstTimer})
              ELSE Goto(0, "S2") /\ UNCHANGED timers
    /\ UNCHANGED << env, ctrl, obj, pin, hw, dev, ops >>

\* start(): self.__nextTrigger = time.time() - firstTimeCorrection, then
\* self.__runHigh() on the calling thread.  Time is counted from this call.
swStart2 ==
    /\ pc[0] = "S2"
    /\ sw' = [sw EXCEPT !.nextTrigger = 0 - FirstTimeCorrection]
    /\ Goto(0, "H1")
    /\ UNCHANGED << env, ctrl, obj, par, pin, hw, dev, timers, ops >>

\* stop(): self.__done = True
swStop1 ==
    /\ pc[0] = "T1"
    /\ IsSW
    /\ sw' = [sw EXCEPT !.done = TRUE]
    /\ Goto(0, "T2")
    /\ UNCHANGED << env, ctrl, obj, par, pin, hw, dev, timers, ops >>

\* stop(): if self.__swTimer: self.__swTimer.cancel()
swStop2 ==
    /\ pc[0] = "T2"
    /\ IF sw.swTimer # 0
       THEN /\ timers' = Cancel(timers, sw.swTimer)
            /\ Goto(0, "T3")
       ELSE /\ Goto(0, "T4")
            /\ UNCHANGED timers
    /\ UNCHANGED << env, ctrl, obj, par, sw, pin, hw, dev, ops >>

\* stop(): self.__swTimer = None
swStop3 ==
    /\ pc[0] = "T3"
    /\ sw' = [sw EXCEPT !.swTimer = 0]
    /\ timers' = Gc(timers, {0, hw.burstTimer})
    /\ Goto(0, "T4")
    /\ UNCHANGED << env, ctrl, obj, par, pin, hw, dev, ops >>

\* stop(): if self.__pin: self.__pin.level = PinIO.Level.LOW; return
swStop4 ==
    /\ pc[0] = "T4"
    /\ pin' = IF sw.pin THEN WritePin("LOW") ELSE pin
    /\ IF StopReturnsTo(0) = "return"
       THEN Finish(0, "none", timers, {sw.swTimer, hw.burstTimer})
       ELSE Goto(0, StopReturnsTo(0)) /\ UNCHANGED timers
    /\ UNCHANGED << env, ctrl, obj, par, sw, hw, dev, ops >>

----------------------------------------------------------------------------
(* Hardware backend: _PulsePiHW (and _HWPulse of Pulse.py).  Values written *)
(* to period and duty_cycle are kept in ticks.                              *)

Refs == {sw.swTimer, hw.burstTimer}

\* __writeDevice: the write succeeds, or fails with OSError (at most MaxGlitch
\* times) and leaves the entry as it was.  log is the sequence of the last
\* LogLen writes attempted, each with its outcome
Logged(log, entry) ==
    IF Len(log) < LogLen THEN Append(log, entry)
    ELSE Append(SubSeq(log, 2, Len(log)), entry)

WriteOutcomes(d) == IF d.glitches < MaxGlitch THEN {TRUE, FALSE} ELSE {TRUE}

writeDevice(d, device, param, ok) ==
    IF ok
    THEN [d EXCEPT ![device] = param,
                   !.log = Logged(@, << device, param, TRUE >>)]
    ELSE [d EXCEPT !.glitches = @ + 1,
                   !.log = Logged(@, << device, param, FALSE >>)]

\* the truth value Python gives a number or None
Truthy(x) == x # NoneVal /\ x # 0

\* start(): if self.__burstTime: self.__burstTimer = threading.Timer( ... )
hwStart1 ==
    /\ pc[0] = "HS1"
    /\ IsHW
    /\ IF Truthy(hw.burstTime)
       THEN /\ FreeIds(timers) # {}
            /\ LET t == NewTimerId(timers)
               IN  /\ hw' = [hw EXCEPT !.burstTimer = t]
                   /\ timers' = Gc([timers EXCEPT ![t] = [st |-> "new",
                                                          fn |-> "stop"]],
                                   {sw.swTimer, t})
       ELSE UNCHANGED << hw, timers >>
    /\ pc' = [pc EXCEPT ![0] = "F1"]
    /\ call' = [call EXCEPT !.f = par.frequency]
    /\ UNCHANGED << env, ctrl, obj, par, sw, pin, dev, res, thrExc, ops >>

\* _PulsePiHW.frequency setter up to the device writes
hwFrequencySet(p, h, value) ==
    IF float(value).v > HWMaxFreq \/ float(value).v < HWMinFreq
    THEN [p |-> p, h |-> h, err |-> "GPIOError_frequency"]
    ELSE LET r == computeParams(p, value, p.dutyCycle, p.bursts)
         IN  IF r.err # "none"
             THEN [p |-> r.p, h |-> h, err |-> r.err]
             ELSE [p |-> r.p, h |-> [h EXCEPT !.periodNs = r.p.period],
                   err |-> "none"]

\* _HWPulse.frequency setter (Pulse.py) up to the device writes
legacyHwFrequencySet(p, h, value) ==
    LET p1 == [p EXCEPT !.frequency = value]
    IN  IF value.v > HWMaxFreq \/ value.v < HWMinFreq
        THEN [p |-> p1, h |-> h, err |-> "GPIOError_frequency"]
        ELSE [p |-> [p1 EXCEPT !.period = PeriodOf(value)],
              h |-> [h EXCEPT !.periodNs = PeriodOf(value)],
              err |-> "none"]

hwFrequency1 ==
    /\ pc[0] = "F1"
    /\ LET r == IF obj = "_PulsePiHW" THEN hwFrequencySet(par, hw, call.f)
                ELSE legacyHwFrequencySet(par, hw, call.f)
       IN  /\ par' = r.p
           /\ hw' = r.h
           /\ IF r.err # "none"
              THEN Finish(0, r.err, timers, Refs)
              ELSE Goto(0, "F2") /\ UNCHANGED timers
    /\ UNCHANGED << env, ctrl, obj, sw, pin, dev, ops >>

\* a write of stop() without the try statement around it: OSError leaves
\* stop()
exceptNothing(next) == "raise"

\* try: ... except OSError: pass: after a failed write stop() goes on with
\* its next statement
exceptOSErrorPass(next) == next

\* a write whose OSError is dropped: the method goes on with its next
\* statement
dropOSError(next) == next

\* a write that is not inside a try statement: OSError is raised to the
\* caller instead of going on with the next statement
raiseToCaller(next) == "raise"

\* one __writeDevice of a setter or of start(): OSError leaves the method
DeviceWriteStep(label, device, param, next) ==
    /\ pc[0] = label
    /\ \E ok \in WriteOutcomes(dev) :
        /\ dev' = writeDevice(dev, device, param, ok)
        /\ LET go == IF ok THEN next ELSE raiseToCaller(next)
           IN  IF go = "raise"
               THEN Finish(0, "OSError", timers, Refs)
               ELSE IF go = "return"
               THEN Finish(0, "none", timers, Refs)
               ELSE Goto(0, go) /\ UNCHANGED timers
    /\ UNCHANGED << env, ctrl, obj, par, sw, pin, hw, ops >>

\* self.__writeDevice( 'duty_cycle', 0 )
hwFrequency2 == DeviceWriteStep("F2", "duty_cycle", 0, "F3")

\* self.__writeDevice( 'period', self.__periodNs )
hwFrequency3 == DeviceWriteStep("F3", "period", hw.periodNs, "F4")

\* self.__writeDevice( 'duty_cycle', self.__periodNs * self._dutyCycle )
hwFrequency4 ==
    DeviceWriteStep("F4", "duty_cycle",
                    MulDiv(hw.periodNs, par.dutyCycle, PerMille),
                    IF call.op = "start" THEN "HS3" ELSE "return")

\* start(): self.__writeDevice( 'enable', 1 )
hwStart3 == DeviceWriteStep("HS3", "enable", 1, "HS4")

\* start(): if self.__burstTimer: self.__burstTimer.start(); return
hwStart4 ==
    /\ pc[0] = "HS4"
    /\ IF hw.burstTimer = 0
       THEN Finish(0, "none", timers, Refs)
       ELSE IF ~ CanStartTimer(timers, hw.burstTimer)
       THEN Finish(0, "RuntimeError", timers, Refs)
       ELSE Finish(0, "none", StartTimer(timers, hw.burstTimer), Refs)
    /\ UNCHANGED << env, ctrl, obj, par, sw, pin, hw, dev, ops >>

\* stop(): if self.__burstTimer:
hwStop1(th) ==
    /\ pc[th] = "X1"
    /\ IsHW
    /\ Goto(th, IF hw.burstTimer # 0 THEN "X2" ELSE "X4")
    /\ UNCHANGED << env, ctrl, obj, par, sw, pin, hw, dev, timers, ops >>

\* stop(): self.__burstTimer.cancel()
hwStop2(th) ==
    /\ pc[th] = "X2"
    /\ IF hw.burstTimer = 0
       THEN Finish(th, "AttributeError", timers, Refs)
       ELSE /\ timers' = Cancel(timers, hw.burstTimer)
            /\ Goto(th, "X3")
    /\ UNCHANGED << env, ctrl, obj, par, sw, pin, hw, dev, ops >>

\* stop(): self.__burstTimer = None
hwStop3(th) ==
    /\ pc[th] = "X3"
    /\ hw' = [hw EXCEPT !.burstTimer = 0]
    /\ timers' = Gc(timers, {sw.swTimer, 0})
    /\ Goto(th, "X4")
    /\ UNCHANGED << env, ctrl, obj, par, sw, pin, dev, ops >>

\* stop(): try: self.__writeDevice( 'duty_cycle', 0 ) except OSError: pass
hwStop4(th) ==
    /\ pc[th] = "X4"
    /\ \E ok \in WriteOutcomes(dev) :
        /\ dev' = writeDevice(dev, "duty_cycle", 0, ok)
        /\ IF ~ ok /\ exceptOSErrorPass("X5") = "raise"
           THEN Finish(th, "OSError", timers, Refs)
           ELSE Goto(th, "X5") /\ UNCHANGED timers
    /\ UNCHANGED << env, ctrl, obj, par, sw, pin, hw, ops >>

\* stop(): try: self.__writeDevice( 'enable', 0 ) except OSError: pass; return
hwStop5(th) ==
    /\ pc[th] = "X5"
    /\ \E ok \in WriteOutcomes(dev) :
        /\ dev' = writeDevice(dev, "enable", 0, ok)
        /\ IF ~ ok /\ exceptOSErrorPass("return") = "raise"
           THEN Finish(th, "OSError", timers, Refs)
           ELSE IF StopReturnsTo(th) = "return"
           THEN Finish(th, "none", timers, Refs)
           ELSE Goto(th, StopReturnsTo(th)) /\ UNCHANGED timers
    /\ UNCHANGED << env, ctrl, obj, par, sw, pin, hw, ops >>

\* threading.Timer: the interval has passed, the thread calls its function
Fire(t) ==
    /\ timers[t].st = "armed"
    /\ timers[t].fn = "runHigh" /\ ~ sw.done => sw.burstCount < MaxCycles
    /\ timers' = [timers EXCEPT ![t].st = "run"]
    /\ pc' = [pc EXCEPT ![t] = CASE timers[t].fn = "runHigh" -> "H1"
                                 [] timers[t].fn = "runLow" -> "L1"
                                 [] OTHER -> "X1"]
    /\ UNCHANGED << env, ctrl, obj, par, sw, pin, hw, dev, call, res, thrExc,
                    ops >>

----------------------------------------------------------------------------
(* Capability query (tools.py) and construction *)

\* tools.hwPWMlines on a Raspberry Pi: raises when config.txt is newer than
\* the last boot
hwPWMlines(e) ==
    IF e.cfgStale THEN [err |-> "GPIOError_config", lines |-> {}]
    ELSE IF e.cfg1213 THEN [err |-> "none", lines |-> {12, 13}]
    ELSE [err |-> "none", lines |-> {18, 19}]

\* isHWpulsePin without the test for the PWM controller directory
isHWpulsePinAnyDir(e, line) ==
    [err |-> hwPWMlines(e).err, val |-> line \in hwPWMlines(e).lines]

\* tools.isHWpulsePin on a Raspberry Pi
isHWpulsePin(e, line) ==
    IF ~ e.pwmDir THEN [err |-> "none", val |-> FALSE]
    ELSE [err |-> hwPWMlines(e).err, val |-> line \in hwPWMlines(e).lines]

\* the channels of a PWM controller with two channels
allowedListTwoChannels(e) == {0, 1}

\* allowedList = [0, 1]; if isPi5(): allowedList.extend( [2, 3] )
allowedList(e) == IF e.pi5 THEN {0, 1, 2, 3} ELSE {0, 1}

\* __lineToPWMChannel; NoneVal when the line has no channel (GPIOError
\* 'Wrong GPIO line specified')
lineToPWMChannel(e, line) ==
    LET channel == IF line \in {12, 13} THEN line - 12
                   ELSE IF e.pi5 THEN line - 16
                   ELSE line - 18
    IN  IF channel \in allowedList(e) THEN channel ELSE NoneVal

NoSw == [done |-> FALSE, swTimer |-> 0, burstCount |-> 0, nextTrigger |-> 0,
         pin |-> FALSE, high |-> NoneVal, low |-> NoneVal]

\* owned: the backend made the PinIO object itself; closed: PinIO.close()
\* has run, which PinIO.__del__ calls when the last reference has gone
NoPin == [level |-> "LOW", nHigh |-> 0, nLow |-> 0, last |-> "none",
          alt |-> TRUE, mode |-> "none", owned |-> FALSE, closed |-> FALSE]

NoHw == [burstTime |-> NoneVal, burstTimer |-> 0, periodNs |-> NoneVal,
         channel |-> NoneVal]

\* _PulseSW.__init__ and _SWPulse.__init__.  _PulseAPI.__init__ of
\* _PulseAPI.py first calls argToLine( pulsePin ), whose int( pinArg ) raises
\* TypeError for a PinIO object
swInit(cls, target, frequency, dutyCycle, bursts) ==
    LET r == computeParams(NoPar, frequency, dutyCycle, bursts)
        p == [r.p EXCEPT !.bursts = IF @ = NoneVal THEN -1 ELSE @]
    IN  IF cls = "_PulseSW" /\ target.kind = "PinIO"
        THEN [err |-> "TypeError", p |-> NoPar, pin |-> NoPin]
        ELSE IF r.err # "none" THEN [err |-> r.err, p |-> NoPar, pin |-> NoPin]
        ELSE IF target.kind = "PinIO"
        THEN IF target.mode \notin {"OUTPUT", "OPEN_DRAIN"}
             THEN [err |-> "GPIOError_mode", p |-> NoPar, pin |-> NoPin]
             ELSE [err |-> "none", p |-> p,
                   pin |-> [NoPin EXCEPT !.level = target.level,
                                         !.mode = target.mode]]
        ELSE [err |-> "none", p |-> p,
              pin |-> [NoPin EXCEPT !.mode = "OUTPUT", !.owned = TRUE]]

\* the burst timer interval computed in the hardware constructor
hwBurstTime(p) == p.bursts * p.period - p.lowTime \div 2

\* _PulsePiHW.__init__ and _HWPulse.__init__.  created: the channel
\* directory exists after the export (one write of the channel number to
\* the export entry, counted in exports) and the sleep of 1 s: a failing
\* export write and a directory that is still absent both end the
\* constructor with GPIOError.  ok1..ok3: the outcomes of the writes
\* enable 0, period, enable 0
hwInit(e, d, target, frequency, dutyCycle, bursts, created, ok1, ok2, ok3) ==
    LET r == computeParams(NoPar, frequency, dutyCycle, bursts)
        p == r.p
        channel == lineToPWMChannel(e, target.line)
        fail(x) == [err |-> x, p |-> NoPar, h |-> NoHw, d |-> d]
        d0 == IF d.exists THEN d
              ELSE [d EXCEPT !.exists = created, !.enable = 0,
                             !.duty_cycle = 0, !.period = 0,
                             !.exports = @ + 1]
        d1 == writeDevice(d0, "enable", 0, ok1)
        d2 == writeDevice(d1, "period", PeriodOf(p.frequency), ok2)
        d3 == writeDevice(d2, "enable", 0, ok3)
        h == [NoHw EXCEPT !.channel = channel,
                          !.burstTime = IF Truthy(p.bursts)
                                        THEN hwBurstTime(p) - ShortestBurstTime
                                        ELSE NoneVal]
    IN  IF r.err # "none" THEN fail(r.err)
        ELSE IF Truthy(bursts) /\ p.frequency.v > HWBurstMaxFreq
        THEN fail("GPIOError_burstFrequency")
        ELSE IF channel = NoneVal THEN fail("GPIOError_line")
        ELSE IF Truthy(p.bursts) /\ hwBurstTime(p) < ShortestBurstTime
        THEN fail("GPIOError_burstTime")
        ELSE IF ~ d0.exists THEN [fail("GPIOError_device") EXCEPT !.d = d0]
        ELSE IF ok1 THEN [err |-> "none", p |-> p, h |-> h, d |-> d1]
        ELSE IF ~ ok2 THEN [fail("GPIOError_establish") EXCEPT !.d = d2]
        ELSE IF ~ ok3 THEN [fail("GPIOError_establish") EXCEPT !.d = d3]
        ELSE [err |-> "none", p |-> p, h |-> h, d |-> d3]

\* Pulse.__init__ without the isinstance( pulsePin, PinIO ) test
selectActorByLine(e, target) ==
    LET q == isHWpulsePin(e, target.line)
    IN  [err |-> q.err,
         cls |-> IF q.err # "none" THEN "none"
                 ELSE IF q.val THEN "_HWPulse" ELSE "_SWPulse",
         probed |-> TRUE]

\* Pulse.__init__: the class of the actor, and whether isHWpulsePin was
\* evaluated
selectActor(e, target) ==
    IF target.kind = "PinIO"
    THEN [err |-> "none", cls |-> "_SWPulse", probed |-> FALSE]
    ELSE LET q == isHWpulsePin(e, target.line)
         IN  [err |-> q.err,
              cls |-> IF q.err # "none" THEN "none"
                      ELSE IF q.val THEN "_HWPulse" ELSE "_SWPulse",
              probed |-> TRUE]

\* what the caller of a constructor gets: the object or the error err
ConstructResult(frequency, dutyCycle, bursts, err) ==
    [NoCall EXCEPT !.op = "construct", !.f = frequency, !.n = dutyCycle,
                   !.val = bursts, !.err = err]

\* the controller after Pulse.__init__ chose class cls for its actor; a
\* backend constructed directly has no controller
PulseCtrl(c, viaPulse, cls, probed, target, err) ==
    IF ~ viaPulse THEN c
    ELSE [c EXCEPT !.exists = (err = "none"),
                   !.actor = IF err = "none" THEN cls ELSE "none",
                   !.selected = cls, !.probed = probed, !.target = target]

\* construction of a software backend of class cls
ConstructSW(cls, viaPulse, probed, target, frequency, dutyCycle, bursts) ==
    LET r == swInit(cls, target, frequency, dutyCycle, bursts)
    IN  /\ obj' = IF r.err = "none" THEN cls ELSE "none"
        /\ par' = r.p
        /\ pin' = r.pin
        /\ sw' = [NoSw EXCEPT !.pin = (r.err = "none")]
        /\ ctrl' = PulseCtrl(ctrl, viaPulse, cls, probed, target, r.err)
        /\ res' = ConstructResult(frequency, dutyCycle, bursts, r.err)
        /\ UNCHANGED << hw, dev >>

\* construction of a hardware backend of class cls
ConstructHW(cls, viaPulse, probed, target, frequency, dutyCycle, bursts) ==
    \E created \in BOOLEAN, ok1, ok2, ok3 \in BOOLEAN :
        /\ LET r == hwInit(env, dev, target, frequency, dutyCycle, bursts,
                           created, ok1, ok2, ok3)
           IN  /\ r.d.glitches <= MaxGlitch
               /\ obj' = IF r.err = "none" THEN cls ELSE "none"
               /\ par' = r.p
               /\ hw' = r.h
               /\ dev' = r.d
               /\ ctrl' = PulseCtrl(ctrl, viaPulse, cls, probed, target, r.err)
               /\ res' = ConstructResult(frequency, dutyCycle, bursts, r.err)
        /\ UNCHANGED << sw, pin >>

\* the caller constructs cls: Pulse (the controller picks the backend),
\* _PulseSW or _PulsePiHW
Construct(cls, target, frequency, dutyCycle, bursts) ==
    /\ obj = "none"
    /\ ops.construct = 0
    /\ ops' = [ops EXCEPT !.construct = 1]
    /\ CASE cls = "_PulseSW" ->
              ConstructSW(cls, FALSE, FALSE, target, frequency, dutyCycle, bursts)
         [] cls = "_PulsePiHW" ->
              /\ target.kind = "raw"
              /\ ConstructHW(cls, FALSE, FALSE, target, frequency, dutyCycle,
                             bursts)
         [] OTHER ->
              LET a == selectActor(env, target)
              IN  CASE a.cls = "_SWPulse" ->
                         ConstructSW(a.cls, TRUE, a.probed, target, frequency,
                                     dutyCycle, bursts)
                    [] a.cls = "_HWPulse" ->
                         ConstructHW(a.cls, TRUE, a.probed, target, frequency,
                                     dutyCycle, bursts)
                    [] OTHER ->
                         /\ res' = ConstructResult(frequency, dutyCycle, bursts, a.err)
                         /\ ctrl' = [ctrl EXCEPT !.probed = a.probed,
                                                 !.target = target]
                         /\ UNCHANGED << obj, par, sw, pin, hw, dev >>
    /\ UNCHANGED << env, timers, pc, call, thrExc >>

----------------------------------------------------------------------------
(* Calls of the control thread *)

OpsLeft(kind) ==
    CASE kind = "start" -> ops.start < MaxStarts
      [] kind = "stop" -> ops.stop < MaxStops
      [] kind = "del" -> ops.del = 0
      [] OTHER -> ops.set + ops.get < MaxSets

\* the control thread calls operation op with argument f (a frequency) or n
CallOp(op, kind, f, n, entry) ==
    /\ obj # "none"
    /\ pc[0] = "idle"
    /\ OpsLeft(kind)
    /\ ops' = [ops EXCEPT ![kind] = @ + 1]
    /\ call' = [op |-> op, f |-> f, n |-> n, val |-> n, err |-> "none",
                cls |-> obj, idle0 |-> BackendIdle, w0 |-> pin.nHigh,
                par0 |-> par, prev |-> res.op, prevF |-> res.f]
    /\ pc' = [pc EXCEPT ![0] = entry]
    /\ UNCHANGED << env, ctrl, obj, par, sw, pin, hw, dev, timers, res, thrExc >>

\* start() of the backend, directly or through Pulse.start, on a backend
\* that is Idle
CallStart ==
    /\ BackendIdle
    /\ CallOp("start", "start", NoFreq, 0, IF IsSW THEN "S1" ELSE "HS1")

\* stop() of the backend, directly or through Pulse.stop
CallStop == CallOp("stop", "stop", NoFreq, 0, IF IsSW THEN "T1" ELSE "X1")

\* obj.dutyCycle = d
CallSetDutyCycle(d) ==
    CallOp("dutyCycle", "set", NoFreq, d,
           IF ctrl.exists THEN "PD1" ELSE IF IsSW THEN "SD1" ELSE "D1")

\* obj.frequency = f
CallSetFrequency(f) ==
    CallOp("frequency", "set", f, 0,
           IF ctrl.exists THEN "PF1" ELSE IF IsSW THEN "SF1" ELSE "F1")

\* obj.frequency
CallGetFrequency ==
    CallOp("getFrequency", "get", NoFreq, 0,
           IF ctrl.exists THEN "PG1" ELSE "G1")

\* a setter that forwards every value
forwardsAll(val) == TRUE

\* if val < 0 or val > 1: raise GPIOError( 'Wrong duty cycle specified' )
pulseValidates(val) == DutyCycleOk(val)

\* Pulse.dutyCycle setter: normalise, validate, forward to the actor
pulseDutyCycle1 ==
    /\ pc[0] = "PD1"
    /\ LET val == NormalizeDutyCycle(call.n)
       IN  IF ~ pulseValidates(val)
           THEN /\ Finish(0, "GPIOError_dutyCycle", timers, Refs)
           ELSE /\ pc' = [pc EXCEPT ![0] = IF IsSW THEN "SD1" ELSE "D1"]
                /\ call' = [call EXCEPT !.val = val]
                /\ UNCHANGED << res, thrExc, timers >>
    /\ UNCHANGED << env, ctrl, obj, par, sw, pin, hw, dev, ops >>

\* Pulse.frequency setter: self._orgFreq = value, then float( frequency )
\* names a variable that does not exist
pulseFrequency1 ==
    /\ pc[0] = "PF1"
    /\ ctrl' = [ctrl EXCEPT !.orgFreq = call.f]
    /\ Finish(0, "NameError", timers, Refs)
    /\ UNCHANGED << env, obj, par, sw, pin, hw, dev, ops >>

\* Pulse.frequency getter: return self._frequency, which Pulse never sets
pulseGetFrequency1 ==
    /\ pc[0] = "PG1"
    /\ Finish(0, "AttributeError", timers, Refs)
    /\ UNCHANGED << env, ctrl, obj, par, sw, pin, hw, dev, ops >>

\* the frequency property of a backend: _PulseAPI.frequency returns
\* self._orgFreq, the getters of Pulse.py return self._frequency
frequencyGet(cls, p) ==
    IF cls \in {"_PulseSW", "_PulsePiHW"} THEN p.orgFreq ELSE p.frequency

getFrequency1 ==
    /\ pc[0] = "G1"
    /\ pc' = [pc EXCEPT ![0] = "idle"]
    /\ res' = [call EXCEPT !.f = frequencyGet(obj, par)]
    /\ call' = NoCall
    /\ UNCHANGED << env, ctrl, obj, par, sw, pin, hw, dev, timers, thrExc, ops >>

\* dutyCycle setter of _PulseSW and of _SWPulse: the first statement reads
\* self.__burstTime, which no method of the class assigns
swDutyCycle1 ==
    /\ pc[0] = "SD1"
    /\ Finish(0, "AttributeError", timers, Refs)
    /\ UNCHANGED << env, ctrl, obj, par, sw, pin, hw, dev, ops >>

\* frequency setter of the software backend, called by the user
swFrequency1 ==
    /\ pc[0] = "SF1"
    /\ LET r == IF obj = "_PulseSW" THEN swFrequencySet(par, sw, call.f)
                ELSE legacySwFrequencySet(par, sw, call.f)
       IN  /\ par' = r.p
           /\ sw' = r.s
           /\ Finish(0, r.err, timers, Refs)
    /\ UNCHANGED << env, ctrl, obj, pin, hw, dev, ops >>

\* _PulsePiHW.dutyCycle setter: self._computeParams( self._frequency, value,
\* self._bursts ); _HWPulse.dutyCycle setter: self._dutyCycle = value
hwDutyCycleSet(cls, p, value) ==
    IF cls = "_PulsePiHW" THEN computeParams(p, p.frequency, value, p.bursts)
    ELSE [p |-> [p EXCEPT !.dutyCycle = value], err |-> "none"]

hwDutyCycle1 ==
    /\ pc[0] = "D1"
    /\ LET r == hwDutyCycleSet(obj, par, call.val)
       IN  /\ par' = r.p
           /\ IF r.err # "none"
              THEN Finish(0, r.err, timers, Refs)
              ELSE Goto(0, "D2") /\ UNCHANGED timers
    /\ UNCHANGED << env, ctrl, obj, sw, pin, hw, dev, ops >>

\* self.__writeDevice( 'duty_cycle', self.__periodNs * self._dutyCycle );
\* __periodNs exists only after the frequency setter has run
hwDutyCycle2 ==
    IF hw.periodNs = NoneVal
    THEN /\ pc[0] = "D2"
         /\ Finish(0, "AttributeError", timers, Refs)
         /\ UNCHANGED << env, ctrl, obj, par, sw, pin, hw, dev, ops >>
    ELSE DeviceWriteStep("D2", "duty_cycle",
                         MulDiv(hw.periodNs, par.dutyCycle, PerMille), "return")

\* obj.bursts = b.  Only _PulsePiHW has a bursts setter, whose first
\* statement is self.stop(); on a Pulse object the assignment makes an
\* attribute of that name
CallSetBursts(b) ==
    CallOp("bursts", "set", NoFreq, b, IF ctrl.exists THEN "PB1" ELSE "X1")

\* Pulse has no bursts property: the controller and its actor stay as they are
pulseBursts1 ==
    /\ pc[0] = "PB1"
    /\ Finish(0, "none", timers, Refs)
    /\ UNCHANGED << env, ctrl, obj, par, sw, pin, hw, dev, ops >>

\* _PulsePiHW.bursts setter after self.stop(): self._computeParams(
\* self._frequency, self._dutyCycle, value )
hwBursts2 ==
    /\ pc[0] = "B2"
    /\ LET r == computeParams(par, par.frequency, par.dutyCycle, call.n)
       IN  /\ par' = r.p
           /\ Finish(0, r.err, timers, Refs)
    /\ UNCHANGED << env, ctrl, obj, sw, pin, hw, dev, ops >>

\* with controller as p: Pulse.__enter__ returns self
CallEnter ==
    /\ ctrl.exists
    /\ ctrl.scope = "out"
    /\ pc[0] = "idle"
    /\ ctrl' = [ctrl EXCEPT !.scope = "in"]
    /\ res' = [NoCall EXCEPT !.op = "enter", !.cls = "Pulse", !.prev = res.op]
    /\ UNCHANGED << env, obj, par, sw, pin, hw, dev, timers, pc, call, thrExc,
                    ops >>

\* the body of the with statement ends, by an exception (exc = 1) or not
\* (exc = 0): Pulse.__exit__( excType, excValue, excTraceback )
CallExit(exc) ==
    /\ ctrl.exists
    /\ ctrl.scope = "in"
    /\ pc[0] = "idle"
    /\ ctrl' = [ctrl EXCEPT !.scope = "left"]
    /\ call' = [op |-> "exit", f |-> NoFreq, n |-> exc, val |-> exc,
                err |-> "none", cls |-> obj, idle0 |-> BackendIdle,
                w0 |-> pin.nHigh, par0 |-> par, prev |-> res.op,
                prevF |-> res.f]
    /\ pc' = [pc EXCEPT ![0] = "PS1"]
    /\ UNCHANGED << env, obj, par, sw, pin, hw, dev, timers, res, thrExc, ops >>

\* the last reference to the object goes: __del__ of the controller or, for
\* a backend made directly, of the backend.  A Timer thread that waits or
\* runs refers to the backend through its function, so the object is
\* destroyed only when there is none
CallDestroy ==
    /\ \A t \in TimerIds : timers[t].st \notin {"armed", "run"}
    /\ CallOp(IF ctrl.exists THEN "pdel" ELSE "del", "del", NoFreq, 0,
              IF ctrl.exists THEN "PS1" ELSE IF IsSW THEN "T1" ELSE "X1")

\* Pulse.stop, called by Pulse.__exit__ and Pulse.__del__:
\* if self.__actor: self.__actor.stop()
pulseStop1 ==
    /\ pc[0] = "PS1"
    /\ Goto(0, IF ctrl.actor = "none" THEN StopReturnsTo(0)
               ELSE IF IsSW THEN "T1" ELSE "X1")
    /\ UNCHANGED << env, ctrl, obj, par, sw, pin, hw, dev, timers, ops >>

\* Pulse.__exit__: return False, so that the with statement raises the
\* exception of its body again
pulseExit2 ==
    /\ pc[0] = "PX2"
    /\ pc' = [pc EXCEPT ![0] = "idle"]
    /\ res' = [call EXCEPT !.val = 0]
    /\ call' = NoCall
    /\ timers' = Gc(timers, Refs)
    /\ UNCHANGED << env, ctrl, obj, par, sw, pin, hw, dev, thrExc, ops >>

\* Pulse.__del__: if self.__actor: del self.__actor, which runs __del__ of
\* the actor, whose first statement is self.stop()
pulseDel2 ==
    /\ pc[0] = "PDel2"
    /\ ctrl' = [ctrl EXCEPT !.exists = FALSE, !.actor = "none"]
    /\ call' = [call EXCEPT !.op = "del"]
    /\ pc' = [pc EXCEPT ![0] = IF IsSW THEN "T1" ELSE "X1"]
    /\ UNCHANGED << env, obj, par, sw, pin, hw, dev, timers, res, thrExc, ops >>

\* the mutation of delReleasesPin: the pin is given up whoever made it
delReleasesAnyPin(p) == TRUE

\* __del__ of the software backend: not isinstance( self._pulsePin, PinIO )
delReleasesPin(p) == p.owned

\* the object is gone: the destructor returns to the control thread
Destroyed ==
    /\ obj' = "none"
    /\ pc' = [pc EXCEPT ![0] = "idle"]
    /\ res' = call
    /\ call' = NoCall
    /\ UNCHANGED thrExc

\* __del__ of the software backend after self.stop(): self.__pin = None for
\* a pin the backend made, which was the last reference to the PinIO, whose
\* __del__ closes it; then self.__swTimer = None
swDel1 ==
    /\ pc[0] = "DS1"
    /\ pin' = IF delReleasesPin(pin) /\ sw.pin
              THEN [pin EXCEPT !.closed = TRUE] ELSE pin
    /\ sw' = [sw EXCEPT !.pin = IF delReleasesPin(pin) THEN FALSE ELSE @,
                        !.swTimer = 0]
    /\ timers' = Gc(timers, {0, hw.burstTimer})
    /\ Destroyed
    /\ UNCHANGED << env, ctrl, par, hw, dev, ops >>

\* the write of the channel number to the unexport entry of the PWM
\* controller: the channel directory goes, or the write fails
unexport(d, channel, ok) ==
    [d EXCEPT !.exists = IF ok THEN FALSE ELSE @,
              !.glitches = IF ok THEN @ ELSE @ + 1,
              !.log = Logged(@, << "unexport", channel, ok >>)]

\* __del__ of the hardware backend after self.stop(): f.write( str(
\* self.__channel ) ) to unexport; an OSError of the destructor is not
\* raised to anyone
hwDel1 ==
    /\ pc[0] = "DH1"
    /\ \E ok \in WriteOutcomes(dev) : dev' = unexport(dev, hw.channel, ok)
    /\ timers' = Gc(timers, {sw.swTimer, 0})
    /\ Destroyed
    /\ UNCHANGED << env, ctrl, par, sw, pin, hw, ops >>

\* the statements of the control thread and of the timer threads
ThreadStep ==
    \/ \E th \in Threads : runHigh1(th) \/ runHigh2(th) \/ runHigh3(th)
                              \/ runHigh4(th) \/ runHigh5(th)
    \/ \E th \in TimerIds : runLow1(th) \/ runLow2(th) \/ runLow3(th)
                               \/ runLow4(th) \/ runLow5(th)
    \/ swStart1 \/ swStart2
    \/ swStop1 \/ swStop2 \/ swStop3 \/ swStop4
    \/ hwStart1 \/ hwFrequency1 \/ hwFrequency2 \/ hwFrequency3 \/ hwFrequency4
    \/ hwStart3 \/ hwStart4
    \/ \E th \in Threads : hwStop1(th) \/ hwStop2(th) \/ hwStop3(th)
                              \/ hwStop4(th) \/ hwStop5(th)
    \/ \E t \in TimerIds : Fire(t)

----------------------------------------------------------------------------
(* Specification of the backends: construction, start(), stop() and the     *)
(* timer threads                                                            *)

Env(pwmDir, cfg1213, cfgStale, pi5) ==
    [pwmDir |-> pwmDir, cfg1213 |-> cfg1213, cfgStale |-> cfgStale,
     pi5 |-> pi5]

\* the channel directory before construction: absent
DevAbsent == [exists |-> FALSE, enable |-> 0, duty_cycle |-> 0, period |-> 0,
              log |-> << >>, glitches |-> 0, exports |-> 0]

\* scope: the with statement on the controller not entered ("out"), its body
\* executing ("in"), or left ("left")
NoCtrl == [exists |-> FALSE, actor |-> "none", selected |-> "none",
           probed |-> FALSE, orgFreq |-> NoFreq, scope |-> "out",
           target |-> [kind |-> "none", line |-> 0, mode |-> "none",
                       level |-> "LOW"]]

InitWith(envs, devs) ==
    /\ env \in envs
    /\ dev \in devs
    /\ ctrl = NoCtrl
    /\ obj = "none"
    /\ par = NoPar
    /\ sw = NoSw
    /\ pin = NoPin
    /\ hw = NoHw
    /\ timers = [t \in TimerIds |-> NoTimer]
    /\ pc = [th \in Threads |-> "idle"]
    /\ call = NoCall
    /\ res = NoCall
    /\ thrExc = {}
    /\ ops = [construct |-> 0, start |-> 0, stop |-> 0, set |-> 0, get |-> 0,
              del |-> 0]

RawPin(line) == [kind |-> "raw", line |-> line, mode |-> "none", level |-> "LOW"]

PinIO(line, mode, level) ==
    [kind |-> "PinIO", line |-> line, mode |-> mode, level |-> level]

Init == InitWith({Env(TRUE, FALSE, FALSE, FALSE)}, {DevAbsent})

BurstValues == {NoneVal, 1, 2}

\* a backend for line 18 at 100 Hz and duty cycle 0.5, made directly or by
\* the controller, for a line number or for the caller's PinIO
ConstructBackend ==
    \E cls \in {"_PulseSW", "_PulsePiHW", "Pulse"},
       target \in {RawPin(18), PinIO(18, "OUTPUT", "LOW")},
       b \in BurstValues :
        Construct(cls, target, Freq(10000, "float"), 500, b)

Next ==
    \/ ConstructBackend
    \/ CallStart
    \/ CallStop
    \/ ThreadStep

Spec == Init /\ [][Next]_vars

----------------------------------------------------------------------------
(* Specification of the parameters: construction of the controller and of  *)
(* the backends on every platform state, and the property setters and      *)
(* getters.  Nothing is started, so no timer runs.                         *)

\* Raspberry Pi platforms: the PWM controller directory present or not, the
\* overlay line of config.txt, config.txt newer than the last boot or not
ParamEnvs ==
    {Env(d, c, s, FALSE) : d \in BOOLEAN, c \in BOOLEAN, s \in BOOLEAN}

\* line 18 and 12 are hardware-PWM lines of one overlay each, 23 of none
ParamTargets ==
    {RawPin(18), RawPin(12), RawPin(23),
     PinIO(18, "OUTPUT", "LOW"), PinIO(12, "OUTPUT", "LOW"),
     PinIO(23, "INPUT", "LOW")}

\* 100 (an int), 100.5, 3000 (above the software limit), 0.05 (below the
\* hardware limit)
ParamFrequencies ==
    {Freq(10000, "int"), Freq(10050, "float"), Freq(300000, "int"),
     Freq(5, "float")}

\* -0.1, 0.5, 1.0, 50, 100, 150
ParamDutyCycles == {-100, 500, 1000, 50000, 100000, 150000}

InitParam == InitWith(ParamEnvs, {DevAbsent})

ConstructParam ==
    \E cls \in {"Pulse", "_PulseSW", "_PulsePiHW"}, target \in ParamTargets,
       f \in {Freq(10000, "int"), Freq(300000, "int")},
       d \in ParamDutyCycles :
        Construct(cls, target, f, d, NoneVal)

\* the platform changes while the object lives: the overlay is unloaded,
\* config.txt is edited
EnvChange ==
    /\ obj # "none"
    /\ pc[0] = "idle"
    /\ ops.set + ops.get = 0
    /\ env' \in ParamEnvs \ {env}
    /\ UNCHANGED << ctrl, obj, par, sw, pin, hw, dev, timers, pc, call, res,
                    thrExc, ops >>

ParamStep ==
    \/ pulseDutyCycle1 \/ pulseFrequency1 \/ pulseGetFrequency1
    \/ getFrequency1
    \/ swDutyCycle1 \/ swFrequency1
    \/ hwDutyCycle1 \/ hwDutyCycle2
    \/ hwFrequency1 \/ hwFrequency2 \/ hwFrequency3 \/ hwFrequency4

NextParam ==
    \/ ConstructParam
    \/ EnvChange
    \/ \E d \in ParamDutyCycles : CallSetDutyCycle(d)
    \/ \E f \in ParamFrequencies : CallSetFrequency(f)
    \/ CallGetFrequency
    \/ ParamStep

SpecParam == InitParam /\ [][NextParam]_vars

----------------------------------------------------------------------------
(* Specification of the hardware backend's frequency and burst count:      *)
(* construction, the frequency and bursts setters, start() and stop() on a *)
(* platform whose device files take every write.                           *)

\* 0.05, 100, 10000, 20000 and 6000000 Hz
BurstFrequencies ==
    {Freq(5, "float"), Freq(10000, "int"), Freq(1000000, "int"),
     Freq(2000000, "int"), Freq(600000000, "int")}

\* the frequencies assigned after construction: 0.05, 20000 and 6000000 Hz
BurstSetFrequencies ==
    {Freq(5, "float"), Freq(2000000, "int"), Freq(600000000, "int")}

\* continuous, or a burst of one pulse
BurstCounts == {NoneVal, 1}

\* the channel directory where no write fails (any more)
DevSteady == [DevAbsent EXCEPT !.glitches = MaxGlitch]

InitBurst == InitWith({Env(TRUE, FALSE, FALSE, FALSE)}, {DevSteady})

ConstructBurst ==
    \E cls \in {"_PulsePiHW", "Pulse"}, f \in BurstFrequencies,
       b \in BurstCounts :
        Construct(cls, RawPin(18), f, 500, b)

BurstStep ==
    \/ pulseFrequency1 \/ pulseBursts1 \/ hwBursts2
    \/ hwStart1 \/ hwFrequency1 \/ hwFrequency2 \/ hwFrequency3 \/ hwFrequency4
    \/ hwStart3 \/ hwStart4
    \/ \E th \in Threads : hwStop1(th) \/ hwStop2(th) \/ hwStop3(th)
                              \/ hwStop4(th) \/ hwStop5(th)
    \/ \E t \in TimerIds : Fire(t)

NextBurst ==
    \/ ConstructBurst
    \/ \E f \in BurstSetFrequencies : CallSetFrequency(f)
    \/ CallSetBursts(1)
    \/ CallStart
    \/ CallStop
    \/ BurstStep

SpecBurst == InitBurst /\ [][NextBurst]_vars

----------------------------------------------------------------------------
(* Specifications of the lifetime of a controller or backend: construction, *)
(* start(), stop(), and destruction, for the software backend (with the     *)
(* dutyCycle setter) and for the hardware backend (with failing writes).    *)

\* start() at most MaxLifeStarts times
LifeStart == ops.start < MaxLifeStarts /\ CallStart

\* stop() by the user at most MaxLifeStops times
LifeStop == ops.stop < MaxLifeStops /\ CallStop

\* obj.dutyCycle = 1 on a backend that is Idle, at most MaxLifeSets times
LifeSet ==
    /\ BackendIdle
    /\ ops.set < MaxLifeSets
    /\ CallSetDutyCycle(PerMille)

\* a burst of one pulse at 100 Hz and duty cycle 0.5: the controller or the
\* software backend for line 23, which is no hardware-PWM line, or for the caller's PinIO on
\* line 18
ConstructLifeSW ==
    \E cls \in {"_PulseSW", "Pulse"},
       target \in {RawPin(23), PinIO(18, "OUTPUT", "LOW")} :
        Construct(cls, target, Freq(10000, "float"), 500, 1)

LifeStepSW ==
    \/ \E th \in Threads : runHigh1(th) \/ runHigh2(th) \/ runHigh3(th)
                              \/ runHigh4(th) \/ runHigh5(th)
    \/ \E th \in TimerIds : runLow1(th) \/ runLow2(th) \/ runLow3(th)
                               \/ runLow4(th) \/ runLow5(th)
    \/ swStart1 \/ swStart2
    \/ swStop1 \/ swStop2 \/ swStop3 \/ swStop4
    \/ \E t \in TimerIds : Fire(t)
    \/ pulseDutyCycle1 \/ swDutyCycle1
    \/ pulseStop1 \/ pulseDel2 \/ swDel1

NextLifeSW ==
    \/ ConstructLifeSW
    \/ LifeStart
    \/ LifeStop
    \/ LifeSet
    \/ CallDestroy
    \/ LifeStepSW

SpecLifeSW == Init /\ [][NextLifeSW]_vars

\* the channel directory where MaxLifeGlitch writes may fail
DevFlaky == [DevAbsent EXCEPT !.glitches = MaxGlitch - MaxLifeGlitch]

InitLifeHW == InitWith({Env(TRUE, FALSE, FALSE, FALSE)}, {DevFlaky})

\* at 100 Hz and duty cycle 0.5: the controller or the hardware backend for
\* line 18
ConstructLifeHW ==
    \E cls \in {"_PulsePiHW", "Pulse"}, b \in BurstCounts :
        Construct(cls, RawPin(18), Freq(10000, "float"), 500, b)

LifeStepHW ==
    \/ hwStart1 \/ hwFrequency1 \/ hwFrequency2 \/ hwFrequency3 \/ hwFrequency4
    \/ hwStart3 \/ hwStart4
    \/ \E th \in Threads : hwStop1(th) \/ hwStop2(th) \/ hwStop3(th)
                              \/ hwStop4(th) \/ hwStop5(th)
    \/ \E t \in TimerIds : Fire(t)
    \/ pulseStop1 \/ pulseDel2 \/ hwDel1

NextLifeHW ==
    \/ ConstructLifeHW
    \/ LifeStart
    \/ LifeStop
    \/ CallDestroy
    \/ LifeStepHW

SpecLifeHW == InitLifeHW /\ [][NextLifeHW]_vars

----------------------------------------------------------------------------
(* Specification of the controller in a with statement: construction,      *)
(* __enter__, start() in the body, __exit__.                               *)

\* the controller for line 18 (hardware backend) or for the caller's PinIO
\* (software backend)
ConstructScope ==
    \E target \in {RawPin(18), PinIO(18, "OUTPUT", "LOW")},
       b \in BurstCounts :
        Construct("Pulse", target, Freq(10000, "float"), 500, b)

\* start() in the body of the with statement
ScopeStart == ctrl.scope = "in" /\ CallStart

ScopeStep ==
    \/ ThreadStep
    \/ pulseStop1 \/ pulseExit2

NextScope ==
    \/ ConstructScope
    \/ CallEnter
    \/ ScopeStart
    \/ \E exc \in {0, 1} : CallExit(exc)
    \/ ScopeStep

SpecScope == Init /\ [][NextScope]_vars

----------------------------------------------------------------------------
(* Specification of the software backend on a pin of the caller: the       *)
(* backend or the controller is constructed with a PinIO object in any of  *)
(* its modes, then started and stopped.                                    *)

\* PinIO.Mode
PinModes == {"INPUT", "INPUT_PULLUP", "INPUT_PULLDOWN", "OUTPUT", "OPEN_DRAIN"}

\* the classes of a software backend the caller can ask for
PinClasses == {"_PulseSW", "Pulse"}

\* the caller's PinIO objects on line 18
PinTargets == {PinIO(18, m, "LOW") : m \in PinModes}

\* cls( pin, 100, 0.5, 1 )
ConstructWithPin(cls, target) ==
    Construct(cls, target, Freq(10000, "float"), 500, 1)

ConstructPin ==
    \E cls \in PinClasses, target \in PinTargets : ConstructWithPin(cls, target)

PinStep ==
    \/ \E th \in Threads : runHigh1(th) \/ runHigh2(th) \/ runHigh3(th)
                              \/ runHigh4(th) \/ runHigh5(th)
    \/ \E th \in TimerIds : runLow1(th) \/ runLow2(th) \/ runLow3(th)
                               \/ runLow4(th) \/ runLow5(th)
    \/ swStart1 \/ swStart2
    \/ swStop1 \/ swStop2 \/ swStop3 \/ swStop4
    \/ \E t \in TimerIds : Fire(t)

NextPin ==
    \/ ConstructPin
    \/ LifeStart
    \/ LifeStop
    \/ PinStep

SpecPin == Init /\ [][NextPin]_vars

----------------------------------------------------------------------------
(* Specification of repeated starts: a backend is constructed and start()  *)
(* is called, also while the backend is running; stop() is not called.     *)

\* start() of the backend, whatever its state
CallStartAgain == CallOp("start", "start", NoFreq, 0, IF IsSW THEN "S1" ELSE "HS1")

\* a backend for line 18 at 100 Hz and duty cycle 0.5, continuous or with a
\* burst of one pulse
ConstructRestart ==
    \E cls \in {"_PulseSW", "_PulsePiHW"}, b \in BurstCounts :
        Construct(cls, RawPin(18), Freq(10000, "float"), 500, b)

RestartStep ==
    \/ \E th \in Threads : runHigh1(th) \/ runHigh2(th) \/ runHigh3(th)
                              \/ runHigh4(th) \/ runHigh5(th)
    \/ \E th \in TimerIds : runLow1(th) \/ runLow2(th) \/ runLow3(th)
                               \/ runLow4(th) \/ runLow5(th)
    \/ swStart1 \/ swStart2
    \/ hwStart1 \/ hwFrequency1 \/ hwFrequency2 \/ hwFrequency3 \/ hwFrequency4
    \/ hwStart3 \/ hwStart4
    \/ \E th \in TimerIds : hwStop1(th) \/ hwStop2(th) \/ hwStop3(th)
                               \/ hwStop4(th) \/ hwStop5(th)
    \/ \E t \in TimerIds : Fire(t)

NextRestart ==
    \/ ConstructRestart
    \/ CallStartAgain
    \/ RestartStep

SpecRestart == Init /\ [][NextRestart]_vars

----------------------------------------------------------------------------
(* Specification of the schedule of the software backend: a backend is     *)
(* constructed and started once, and its callbacks run in every order the  *)
(* threads allow; stop() is not called.                                    *)

\* duty cycles 0.25 and 0.5
ScheduleDutyCycles == {250, 500}

\* continuous generation, or a burst of one or two pulses
ScheduleBursts == {NoneVal, 1, 2}

\* the controller or the software backend for line 23 at 100 Hz
ConstructSchedule ==
    \E cls \in {"_PulseSW", "Pulse"}, d \in ScheduleDutyCycles,
       b \in ScheduleBursts :
        Construct(cls, RawPin(23), Freq(10000, "float"), d, b)

ScheduleStep ==
    \/ \E th \in Threads : runHigh1(th) \/ runHigh2(th) \/ runHigh3(th)
                              \/ runHigh4(th) \/ runHigh5(th)
    \/ \E th \in TimerIds : runLow1(th) \/ runLow2(th) \/ runLow3(th)
                               \/ runLow4(th) \/ runLow5(th)
    \/ swStart1 \/ swStart2
    \/ \E t \in TimerIds : Fire(t)

NextSchedule ==
    \/ ConstructSchedule
    \/ LifeStart
    \/ ScheduleStep

SpecSchedule == Init /\ [][NextSchedule]_vars

----------------------------------------------------------------------------
(* Specification of a hardware burst left to itself: a hardware backend    *)
(* with a finite burst count is constructed and started once, no write     *)
(* fails and stop() is not called by the user.  Threads that can run do    *)
(* run, and a timer that is armed fires.                                   *)

\* 100 Hz, 500 Hz and 1000 Hz
SelfStopFrequencies ==
    {Freq(10000, "int"), Freq(50000, "int"), Freq(100000, "int")}

\* duty cycles 0.25, 0.5 and 1.0
SelfStopDutyCycles == {250, 500, 1000}

\* bursts of one and of two pulses
SelfStopBursts == {1, 2}

ConstructSelfStop ==
    \E cls \in {"_PulsePiHW", "Pulse"}, f \in SelfStopFrequencies,
       d \in SelfStopDutyCycles, b \in SelfStopBursts :
        Construct(cls, RawPin(18), f, d, b)

SelfStopStep ==
    \/ hwStart1 \/ hwFrequency1 \/ hwFrequency2 \/ hwFrequency3 \/ hwFrequency4
    \/ hwStart3 \/ hwStart4
    \/ \E th \in TimerIds : hwStop1(th) \/ hwStop2(th) \/ hwStop3(th)
                               \/ hwStop4(th) \/ hwStop5(th)
    \/ \E t \in TimerIds : Fire(t)

NextSelfStop ==
    \/ ConstructSelfStop
    \/ LifeStart
    \/ SelfStopStep

SpecSelfStop == InitBurst /\ [][NextSelfStop]_vars /\ WF_vars(SelfStopStep)

----------------------------------------------------------------------------
(* Specification of start() of the hardware backend: the backend is         *)
(* constructed at a frequency inside or outside the range of the hardware,  *)
(* started and stopped, and device writes may fail.                         *)

\* 0.05 Hz (below the range), 100 Hz, 6000000 Hz (above the range)
StartFrequencies ==
    {Freq(5, "float"), Freq(10000, "int"), Freq(600000000, "int")}

ConstructStart ==
    \E cls \in {"_PulsePiHW", "Pulse"}, f \in StartFrequencies,
       b \in BurstCounts :
        Construct(cls, RawPin(18), f, 500, b)

StartStep ==
    \/ hwStart1 \/ hwFrequency1 \/ hwFrequency2 \/ hwFrequency3 \/ hwFrequency4
    \/ hwStart3 \/ hwStart4
    \/ \E th \in Threads : hwStop1(th) \/ hwStop2(th) \/ hwStop3(th)
                              \/ hwStop4(th) \/ hwStop5(th)
    \/ \E t \in TimerIds : Fire(t)

NextStart ==
    \/ ConstructStart
    \/ LifeStart
    \/ LifeStop
    \/ StartStep

SpecStart == InitLifeHW /\ [][NextStart]_vars

----------------------------------------------------------------------------
(* Specification of the constant levels: the software backend at duty      *)
(* cycle 0, 0.5 and 1, started once and stopped.                           *)

\* duty cycles 0, 0.5 and 1
LevelDutyCycles == {0, 500, PerMille}

\* the controller or the software backend for line 23 at 100 Hz, continuous
ConstructLevel ==
    \E cls \in {"_PulseSW", "Pulse"}, d \in LevelDutyCycles :
        Construct(cls, RawPin(23), Freq(10000, "float"), d, NoneVal)

LevelStep ==
    \/ \E th \in Threads : runHigh1(th) \/ runHigh2(th) \/ runHigh3(th)
                              \/ runHigh4(th) \/ runHigh5(th)
    \/ \E th \in TimerIds : runLow1(th) \/ runLow2(th) \/ runLow3(th)
                               \/ runLow4(th) \/ runLow5(th)
    \/ swStart1 \/ swStart2
    \/ swStop1 \/ swStop2 \/ swStop3 \/ swStop4
    \/ \E t \in TimerIds : Fire(t)

NextLevel ==
    \/ ConstructLevel
    \/ LifeStart
    \/ LifeStop
    \/ LevelStep

SpecLevel == Init /\ [][NextLevel]_vars

----------------------------------------------------------------------------
(* Specification of the construction of the hardware backend on a channel  *)
(* that is absent or was left behind by an earlier program (no unexport),  *)
(* with device writes that may fail; then start() and stop().              *)

\* the period and the duty cycle (in ns) of 100 Hz at duty cycle 0.5
LeftPeriod == 10000000
LeftDutyCycle == 5000000

\* the channel directory left by an earlier program: enabled or not, with
\* the duty cycle it had
DevLeft ==
    {[DevFlaky EXCEPT !.exists = TRUE, !.enable = e, !.duty_cycle = dc,
                      !.period = LeftPeriod] :
        e \in {0, 1}, dc \in {0, LeftDutyCycle}}

InitRest == InitWith({Env(TRUE, FALSE, FALSE, FALSE)}, {DevFlaky} \cup DevLeft)

\* at 100 Hz and duty cycle 0.5: the controller or the hardware backend for
\* line 18
ConstructRest ==
    \E cls \in {"_PulsePiHW", "Pulse"}, b \in BurstCounts :
        Construct(cls, RawPin(18), Freq(10000, "float"), 500, b)

NextRest ==
    \/ ConstructRest
    \/ LifeStart
    \/ LifeStop
    \/ StartStep

SpecRest == InitRest /\ [][NextRest]_vars

----------------------------------------------------------------------------
(* Specification of continuous generation: a backend constructed with no   *)
(* burst count, with a burst count of zero, of -1 or of one, started and   *)
(* stopped.                                                                *)

\* None, 0, -1, and a burst of one pulse
ContinuousBursts == {NoneVal, 0, -1, 1}

\* _PulseAPI.bursts getter: None for a burst count that is not positive
burstsGet(p) ==
    IF p.bursts # NoneVal /\ p.bursts <= 0 THEN NoneVal ELSE p.bursts

\* at 100 Hz and duty cycle 0.5 for line 18: the software backend, the
\* hardware backend, or the controller (which picks the hardware backend)
ConstructContinuous ==
    \E cls \in {"_PulseSW", "_PulsePiHW", "Pulse"}, b \in ContinuousBursts :
        Construct(cls, RawPin(18), Freq(10000, "float"), 500, b)

NextContinuous ==
    \/ ConstructContinuous
    \/ LifeStart
    \/ LifeStop
    \/ ThreadStep

SpecContinuous == InitBurst /\ [][NextContinuous]_vars

----------------------------------------------------------------------------
(* Specification of the channel of a line: the controller or the hardware  *)
(* backend is constructed for a line on a Raspberry Pi 5 or on another     *)
(* Raspberry Pi, with either overlay, then started and stopped.            *)

\* Raspberry Pi platforms with the PWM controller directory present: the
\* overlay line of config.txt present or not, Raspberry Pi 5 or not
LineEnvs == {Env(TRUE, c, FALSE, p) : c \in BOOLEAN, p \in BOOLEAN}

\* the hardware-PWM lines of both overlays, and line 23 of none
LineTargets == {RawPin(12), RawPin(13), RawPin(18), RawPin(19), RawPin(23)}

InitLine == InitWith(LineEnvs, {DevSteady})

\* at 100 Hz and duty cycle 0.5, continuous or a burst of one pulse
ConstructLine ==
    \E cls \in {"Pulse", "_PulsePiHW"}, target \in LineTargets,
       b \in BurstCounts :
        Construct(cls, target, Freq(10000, "float"), 500, b)

NextLine ==
    \/ ConstructLine
    \/ LifeStart
    \/ LifeStop
    \/ StartStep

SpecLine == InitLine /\ [][NextLine]_vars

----------------------------------------------------------------------------
(* Properties of start() and stop() *)

\* no timer thread is executing a callback
CallbacksFinished == \A t \in TimerIds : timers[t].st # "run"

\* the control thread is between calls and the last call was op
Returned(op) == pc[0] = "idle" /\ res.op = op

\* C1: software backend with a finite burst count N >= 1, one start() and no
\* stop(): the pin writes alternate beginning with HIGH, there are never
\* more than N HIGH and N LOW writes, and when the backend marks itself done
\* exactly N of each have been made.
C1_BurstExact ==
    IsSW /\ par.bursts >= 1 /\ ops.start = 1 /\ ops.stop = 0
        => /\ pin.alt
           /\ pin.nHigh <= par.bursts
           /\ pin.nLow <= par.bursts
           /\ sw.done => pin.nHigh = par.bursts /\ pin.nLow = par.bursts

\* C2: after two stop() calls in a row have returned and every callback has
\* finished, the second call has raised nothing and the backend is at rest:
\* software done, no timer pending, pin LOW; hardware no burst timer,
\* duty_cycle 0, enable 0.
C2_StopTwice ==
    Returned("stop") /\ res.prev = "stop" /\ CallbacksFinished
        => /\ res.err = "none"
           /\ IsSW => sw.done /\ Alive(timers) = {} /\ pin.level = "LOW"
           /\ IsHW => /\ hw.burstTimer = 0 /\ Alive(timers) = {}
                      /\ dev.duty_cycle = 0 /\ dev.enable = 0

\* C3: software backend: once stop() has returned and the callback that was
\* executing meanwhile has finished, the pin is LOW and no timer is pending.
C3_StopSafe ==
    IsSW /\ Returned("stop") /\ CallbacksFinished
        => pin.level = "LOW" /\ Alive(timers) = {}

\* C4: a start() made on an Idle backend that returns normally has driven
\* the output: software pin written HIGH and a timer started, hardware
\* enable 1.
C4_StartFromIdleDrives ==
    [][ (pc[0] # "idle" /\ pc'[0] = "idle" /\ res'.op = "start"
            /\ res'.err = "none" /\ res'.idle0)
        => /\ IsSW => pin'.nHigh > res'.w0 /\ sw'.swTimer # 0
           /\ IsHW => dev'.enable = 1 ]_vars

----------------------------------------------------------------------------
(* Properties of the controller's choice of backend *)

\* C5: a controller constructed with the caller's PinIO object selects the
\* software backend, whatever the line and the platform, and isHWpulsePin is
\* not evaluated for it.
C5_PinIOSelectsSoftware ==
    ctrl.target.kind = "PinIO"
        => /\ ctrl.selected = "_SWPulse"
           /\ ~ ctrl.probed
           /\ ~ IsHW
           /\ ctrl.exists => ctrl.actor = "_SWPulse" /\ obj = "_SWPulse"

\* a controller for a PinIO on line 18 exists where line 18 given as a
\* number selects the hardware backend
C5_Witness ==
    /\ ctrl.exists
    /\ ctrl.target.kind = "PinIO"
    /\ ctrl.target.line = 18
    /\ obj = "_SWPulse"
    /\ res.op = "construct"
    /\ isHWpulsePin(env, 18) = [err |-> "none", val |-> TRUE]

\* the step in which Pulse( pulsePin, ... ) is called with a pin or line
\* number
ConstructsFromRawPin ==
    ops.construct = 0 /\ ops'.construct = 1 /\ ctrl'.target.kind = "raw"

\* the hardware-PWM lines the overlay line of config.txt names
OverlayLines(e) == IF e.cfg1213 THEN {12, 13} ELSE {18, 19}

\* once constructed, the controller keeps its actor
SelectionKept ==
    ops.construct = 1
        => /\ ctrl'.selected = ctrl.selected
           /\ ctrl'.actor = ctrl.actor
           /\ obj' = obj

----------------------------------------------------------------------------
(* Properties of the parameters *)

IsPercentage(d) == d > PerMille /\ d <= 100 * PerMille

\* C7: a duty cycle d with 1 < d <= 100 given to a constructor or assigned
\* to dutyCycle is stored as d / 100, which lies in [0, 1]; a d in [0, 1] is
\* stored as it is.
C7_DutyCycleStored ==
    /\ pc[0] = "idle"
    /\ obj # "none"
    /\ \/ res.op = "construct" /\ res.err = "none"
       \/ res.op = "dutyCycle"
    => /\ IsPercentage(res.n)
            => /\ par.dutyCycle * 100 = res.n
               /\ par.dutyCycle >= 0 /\ par.dutyCycle <= PerMille
       /\ res.n >= 0 /\ res.n <= PerMille => par.dutyCycle = res.n

\* C8: a duty cycle below 0 or above 100 is rejected with GPIOError 'Wrong
\* duty cycle specified', by the constructors (when neither the capability
\* query nor the pin argument has failed before) and by every dutyCycle
\* setter.
C8_InvalidDutyCycleRejected ==
    /\ pc[0] = "idle"
    /\ res.op \in {"construct", "dutyCycle"}
    /\ res.n < 0 \/ res.n > 100 * PerMille
    /\ res.err \notin {"GPIOError_config", "TypeError"}
    => res.err = "GPIOError_dutyCycle"

\* C9: when a frequency or dutyCycle setter has raised, the stored
\* frequency, original frequency, duty cycle, burst count, period, high
\* time and low time are what they were before the call.
C9_FailedSetterChangesNothing ==
    /\ pc[0] = "idle"
    /\ res.op \in {"frequency", "dutyCycle"}
    /\ res.err # "none"
    => par = res.par0

\* the frequency is within the range of the backend in use
FrequencyInRange(f) ==
    IF IsSW THEN f.v <= SWMaxFreq
    ELSE f.v >= HWMinFreq /\ f.v <= HWMaxFreq

\* C10: reading frequency right after assigning a value within the backend's
\* range to it returns that very value.
C10_FrequencyRoundTrip ==
    Returned("getFrequency") /\ res.prev = "frequency"
        /\ FrequencyInRange(res.prevF)
        => res.err = "none" /\ res.f = res.prevF

----------------------------------------------------------------------------
(* Properties of the frequency and the burst count *)

HWFrequencyOk(f) == f.v >= HWMinFreq /\ f.v <= HWMaxFreq

\* the errors a hardware constructor raises for another reason than the
\* frequency range: the burst limits and the device directory
OtherHWInitErrors ==
    {"GPIOError_burstFrequency", "GPIOError_burstTime", "GPIOError_device",
     "GPIOError_establish"}

\* C11: a hardware backend never holds a frequency below 0.1 Hz or above
\* 5,000,000 Hz: the hardware constructor (unless it fails for the burst
\* limits or the device) and the frequency setter of the hardware backend
\* reject such a frequency with GPIOError for the frequency.
C11_HWFrequencyBounds ==
    /\ IsHW => HWFrequencyOk(par.frequency)
    /\ /\ pc[0] = "idle"
       /\ \/ res.op = "construct"
          \/ res.op = "frequency" /\ res.cls = "_PulsePiHW"
       /\ ~ HWFrequencyOk(res.f)
       /\ res.err \notin OtherHWInitErrors
       => res.err = "GPIOError_frequency"

\* C12: a software backend never holds a frequency above 2,000 Hz: its
\* constructor rejects such a frequency, and its frequency setter rejects
\* it with GPIOError for the frequency, testing the value assigned.
C12_SWFrequencyBound ==
    /\ IsSW => par.frequency.v <= SWMaxFreq
    /\ /\ pc[0] = "idle"
       /\ res.op = "frequency"
       /\ res.cls = "_PulseSW"
       /\ float(res.f).v > SWMaxFreq
       => res.err = "GPIOError_frequency"

\* C13: a hardware backend never holds a burst count together with a
\* frequency above 10,000 Hz: the constructor rejects the combination with
\* GPIOError for the burst frequency, and so do the frequency setter and
\* the bursts setter.
C13_BurstFrequencyLimit ==
    /\ IsHW /\ Truthy(par.bursts) => par.frequency.v <= HWBurstMaxFreq
    /\ /\ pc[0] = "idle"
       /\ res.op = "construct"
       /\ Truthy(res.val)
       /\ float(res.f).v > HWBurstMaxFreq
       => res.err = "GPIOError_burstFrequency"

\* the burst of the configuration p lasts less than 0.75 ms
BurstTooShort(p) == Truthy(p.bursts) /\ hwBurstTime(p) < ShortestBurstTime

\* C14: a hardware backend whose burst count and frequency (within the
\* burst limit of 10,000 Hz) give a burst duration burstCount * period -
\* lowTime / 2 below 0.75 ms never has its channel enabled, and a
\* constructor given such a configuration raises GPIOError for the burst
\* time.
C14_BurstTooShortRejected ==
    /\ IsHW /\ dev.enable = 1 /\ par.frequency.v <= HWBurstMaxFreq
         => ~ BurstTooShort(par)
    /\ /\ pc[0] = "idle"
       /\ res.op = "construct"
       /\ Truthy(res.val)
       /\ float(res.f).v <= HWBurstMaxFreq
       /\ BurstTooShort(computeParams(NoPar, res.f, res.n, res.val).p)
       => res.err = "GPIOError_burstTime" /\ dev.enable = 0

----------------------------------------------------------------------------
(* Properties of the with statement and of destruction *)

\* no write of the last LogLen to the device files has failed
WritesTaken == \A i \in 1 .. Len(dev.log) : dev.log[i][3]

\* __exit__ has returned and every callback has finished
ScopeLeft == Returned("exit") /\ CallbacksFinished

\* C15: __enter__ changes nothing of the backend, its pin, its channel and
\* its timers, and returns the controller; when __exit__ has ended (and
\* every callback has finished) it has returned False, for the exception of
\* the body to be raised again, unless stop() raised; stop() has acted
\* (software: done; hardware: no burst timer), no timer is pending, and
\* the hardware channel is disabled unless a device write failed.
C15_ScopeStops ==
    [][ /\ ctrl.scope = "out" /\ ctrl'.scope = "in"
            => /\ UNCHANGED << obj, par, sw, pin, hw, dev, timers >>
               /\ res'.op = "enter" /\ res'.cls = "Pulse"
        /\ ScopeLeft'
            => /\ res'.err = "none" => res'.val = 0
               /\ IsSW => sw'.done
               /\ IsHW => hw'.burstTimer = 0
               /\ Alive(timers') = {}
               /\ IsHW /\ WritesTaken' => dev'.enable = 0 ]_vars

\* the destructor of a software backend has returned
SWDestroyed == Returned("del") /\ res.cls \in {"_PulseSW", "_SWPulse"}

HWDestroyed == Returned("del") /\ res.cls \in {"_PulsePiHW", "_HWPulse"}

\* the last three writes to the device files, oldest first
LastWrites == SubSeq(dev.log, Len(dev.log) - 2, Len(dev.log))

\* C17: when the destruction of a hardware backend has returned, the backend
\* is gone, no burst timer is left, and the last three writes it attempted
\* are duty_cycle = 0 and enable = 0 of stop() and then the channel number
\* to unexport, in this order, whether or not the writes of stop() failed
C17_DestructionUnexports ==
    HWDestroyed =>
        /\ obj = "none"
        /\ res.err = "none"
        /\ hw.burstTimer = 0
        /\ Len(dev.log) >= 3
        /\ LastWrites[1][1] = "duty_cycle" /\ LastWrites[1][2] = 0
        /\ LastWrites[2][1] = "enable" /\ LastWrites[2][2] = 0
        /\ LastWrites[3][1] = "unexport" /\ LastWrites[3][2] = hw.channel

\* destroyed after both writes of stop() failed, and the channel is unexported
C17_Witness ==
    /\ HWDestroyed
    /\ Len(dev.log) >= 3
    /\ ~ LastWrites[1][3] /\ ~ LastWrites[2][3] /\ LastWrites[3][3]
    /\ LastWrites[3][1] = "unexport"
    /\ ~ dev.exists

\* C18: stop() of the hardware backend never raises to its caller: when a
\* stop() call of the control thread has returned, it has returned without
\* an exception, whatever the device writes and the burst timer did
C18_StopNeverRaises ==
    Returned("stop") /\ res.cls \in {"_PulsePiHW", "_HWPulse"} =>
        res.err = "none"

\* the backend adopted the caller's pin: it exists, writes to a pin of the
\* caller's mode and level, and does not own it
Adopted(target) ==
    /\ obj' \in {"_PulseSW", "_SWPulse"}
    /\ sw'.pin
    /\ pin' = [NoPin EXCEPT !.mode = target.mode, !.level = target.level]

\* C19: the construction of a software backend with the caller's PinIO
\* succeeds and adopts that pin when its mode is OUTPUT or OPEN_DRAIN, and
\* fails, leaving no backend and no pin adopted, in every other mode
C19_CallerPinMode ==
    [][\A cls \in PinClasses, target \in PinTargets :
          ConstructWithPin(cls, target) =>
              IF target.mode \in {"OUTPUT", "OPEN_DRAIN"}
              THEN res'.err = "none" /\ Adopted(target)
              ELSE res'.err # "none" /\ obj' = "none" /\ ~ sw'.pin]_vars

\* a __runHigh has started the timer of __runLow and not yet executed
\* self.__burstCount += 1
IncrementPending == \E th \in Threads : pc[th] = "H5"

\* a __runLow is about to compare self.__burstCount with self._bursts
AtComparison == \E th \in TimerIds : pc[th] = "L3"

\* C20: software backend with a finite burst count, started once and not
\* stopped: whenever a low-phase callback is about to compare the burst
\* counter, the high-phase callback that armed it has already incremented
\* the counter, and the counter never passes the burst count
C20_LowSeesIncrement ==
    IsSW /\ par.bursts >= 1 /\ ops.start = 1 /\ ops.stop = 0 =>
        /\ AtComparison => ~ IncrementPending
        /\ sw.burstCount <= par.bursts

\* the timers that are started and have neither fired nor been cancelled
Armed == {t \in TimerIds : timers[t].st = "armed"}

\* C21: a backend has at most one armed timer at any time, also after
\* start() has been called again without a stop() in between
C21_OneArmedTimer == Cardinality(Armed) <= 1

\* a thread stands in stop() of the hardware backend before
\* self.__burstTimer.cancel(), having found self.__burstTimer set
AtCancel(th) == IsHW /\ pc[th] = "X2"

\* C22: stop() of the hardware backend executed by the burst timer's thread
\* and by the control thread at the same time: a thread that is about to
\* call self.__burstTimer.cancel() finds the reference still set, no thread
\* ends with AttributeError, and when both have returned and no write
\* failed the channel is disabled with duty cycle 0 and no timer is armed
C22_ConcurrentStopSafe ==
    /\ \A th \in Threads : AtCancel(th) => hw.burstTimer # 0
    /\ IsHW => "AttributeError" \notin thrExc
    /\ IsHW /\ Returned("stop") /\ CallbacksFinished /\ dev.glitches = 0
            => dev.enable = 0 /\ dev.duty_cycle = 0 /\ Armed = {}

\* the timing values __runHigh and __runLow schedule with (_highTime and
\* _lowTime) and the period are those of the current frequency and duty cycle
TimingDerived ==
    /\ par.period = PeriodOf(par.frequency)
    /\ par.highTime = MulDiv(par.period, par.dutyCycle, PerMille)
    /\ par.lowTime = MulDiv(par.period, PerMille - par.dutyCycle, PerMille)

\* C23: after the construction of a software backend and after every
\* successful assignment to its frequency, dutyCycle or bursts, period is
\* 1/frequency, highTime is period*dutyCycle and lowTime is
\* period*(1-dutyCycle) for the current frequency and duty cycle
C23_TimingDerived ==
    /\ IsSW
    /\ pc[0] = "idle"
    /\ res.op \in {"construct", "frequency", "dutyCycle", "bursts"}
    /\ res.err = "none"
    => TimingDerived

\* start() has set the deadline
Started == ops.start = 1 /\ pc[0] \notin {"S1", "S2"} /\ res.err = "none"

\* the callbacks that have advanced the deadline: those that have written
\* their level and those that are about to
HighPhases == pin.nHigh + Cardinality({th \in Threads : pc[th] = "H2"})
LowPhases == pin.nLow + Cardinality({th \in Threads : pc[th] = "L2"})

\* C24: in the software backend, started once and not stopped, the deadline
\* is the one start() set (the time of start() minus the first-edge
\* correction) plus highTime for every high phase and lowTime for every low
\* phase begun since, in every order of the threads; after k complete
\* cycles it is the initial deadline plus k periods
C24_NominalDeadline ==
    IsSW /\ Started =>
        /\ sw.nextTrigger = (0 - FirstTimeCorrection)
                              + HighPhases * par.highTime
                              + LowPhases * par.lowTime
        /\ HighPhases = LowPhases =>
               sw.nextTrigger = (0 - FirstTimeCorrection)
                                 + HighPhases * par.period

\* two complete cycles at duty cycle 0.25 have been scheduled
C24_Witness ==
    /\ IsSW /\ Started
    /\ par.dutyCycle = 250
    /\ pin.nHigh = 2 /\ pin.nLow = 2
    /\ sw.nextTrigger = 2 * par.period - FirstTimeCorrection

\* start() of the hardware backend, at a frequency in its range, has
\* executed its first statement, the one that creates the burst timer
PastBurstTimerCreation ==
    IsHW /\ call.op = "start" /\ pc[0] = "F1" /\ HWFrequencyOk(par.frequency)

\* C25: when start() of the hardware backend has passed the creation of the
\* burst timer, then with a burst count set there is a new timer whose
\* duration is burstCount*period - lowTime/2 minus the settle margin for the
\* parameters now in force, and with the burst count None there is no timer
C25_BurstTimeCurrent ==
    PastBurstTimerCreation =>
        IF Truthy(par.bursts)
        THEN /\ hw.burstTimer # 0
             /\ timers[hw.burstTimer].st = "new"
             /\ hw.burstTime = hwBurstTime(par) - ShortestBurstTime
        ELSE hw.burstTimer = 0

\* the channel of a hardware backend with a finite burst count is enabled
Bursting == IsHW /\ Truthy(par.bursts) /\ dev.enable = 1

\* C26: a hardware burst that the constructor accepted ends by itself: once
\* start() has enabled the channel, the channel is eventually disabled
\* without a stop() of the user
C26_BurstSelfTerminates == Bursting ~> dev.enable = 0

\* the step is a write to the device file, and the write it attempts
WritesDevice == dev'.log # dev.log
WriteAttempted == dev'.log[Len(dev'.log)]

\* the step is the attempt of start() to write enable = 1
WritesEnable == WritesDevice /\ call.op = "start" /\ WriteAttempted[1] = "enable"

\* the step is start() raising an exception to its caller
StartFails ==
    /\ IsHW /\ call.op = "start"
    /\ pc[0] # "idle" /\ pc'[0] = "idle"
    /\ res'.err # "none"

\* a timer has been started and has not finished
Pending(tm) == {t \in TimerIds : tm[t].st \in {"armed", "run"}}

\* C27: start() of the hardware backend attempts the write of enable = 1
\* only directly after its successful writes of the period and of the high
\* time for the current duty cycle, in this order; a start() that raises,
\* for the frequency or for a failed write, leaves the channel disabled and
\* has started no timer
C27_StartWriteOrder ==
    [][/\ WritesEnable =>
            /\ WriteAttempted[2] = 1
            /\ Len(dev'.log) >= 3
            /\ dev'.log[Len(dev'.log) - 2] = << "period", hw.periodNs, TRUE >>
            /\ dev'.log[Len(dev'.log) - 1] =
                   << "duty_cycle",
                      MulDiv(hw.periodNs, par.dutyCycle, PerMille), TRUE >>
            /\ hw.periodNs = PeriodOf(par.frequency)
            /\ HWFrequencyOk(par.frequency)
       /\ StartFails => dev'.enable = 0 /\ Pending(timers') = {}]_vars

\* start() of a burst has failed at its write of the period: the channel is
\* disabled and the timer start() created is not started
C27_Witness ==
    /\ IsHW /\ Returned("start")
    /\ res.err = "OSError"
    /\ dev.log[Len(dev.log)] = << "period", hw.periodNs, FALSE >>
    /\ hw.burstTimer # 0
    /\ timers[hw.burstTimer].st = "new"
    /\ dev.enable = 0

\* an assignment to frequency or dutyCycle of the hardware backend, made
\* while it was not running, has returned, and was not refused for its
\* value or for a failed write
HWSetterDone ==
    /\ res.cls = "_PulsePiHW"
    /\ pc[0] = "idle"
    /\ res.op \in {"frequency", "dutyCycle"}
    /\ res.idle0
    /\ res.err \notin {"GPIOError_frequency", "GPIOError_dutyCycle", "OSError"}

\* C28: an assignment to frequency or to dutyCycle of a hardware backend
\* that is not running, also directly after construction, succeeds and
\* makes exactly the writes duty_cycle = 0, period, duty_cycle = the new
\* high time, in this order
C28_SetterWrites ==
    HWSetterDone =>
        /\ res.err = "none"
        /\ hw.periodNs = PeriodOf(par.frequency)
        /\ dev.log = << << "duty_cycle", 0, TRUE >>,
                        << "period", hw.periodNs, TRUE >>,
                        << "duty_cycle",
                           MulDiv(hw.periodNs, par.dutyCycle, PerMille),
                           TRUE >> >>

\* the software backend has marked a finite burst done; stop() was not called
BurstDone == IsSW /\ par.bursts >= 1 /\ ops.stop = 0 /\ sw.done

\* C29: once the software backend has marked its finite burst done, no step
\* arms a timer
C29_NoTimerAfterBurst == [][BurstDone => Armed' \subseteq Armed]_vars

\* the step is the first statement of a timer callback of the software
\* backend, executed by thread th with the done flag set
LateCallbackStep(th) ==
    /\ IsSW /\ sw.done
    /\ pc[th] \in {"H1", "L1"}
    /\ pc'[th] # pc[th]

\* C30: a timer callback of the software backend that begins with the done
\* flag set returns at once: it writes no pin level, arms no timer and
\* leaves the deadline and the burst counter as they are; and the done flag,
\* once set, stays set
C30_LateCallbackIdle ==
    [][/\ \A th \in TimerIds :
            LateCallbackStep(th) =>
                /\ pc'[th] = "idle"
                /\ pin' = pin
                /\ sw'.nextTrigger = sw.nextTrigger
                /\ sw'.burstCount = sw.burstCount
                /\ Armed' \subseteq Armed
                /\ \A t \in TimerIds : timers'[t].st # "new"
       /\ IsSW /\ sw.done => sw'.done]_vars

\* the timer armed by the last low phase of a burst has fired and its
\* callback has returned: the pin has its N HIGH writes and is LOW, nothing
\* is pending
C30_Witness ==
    /\ IsSW /\ sw.done /\ ops.stop = 0
    /\ sw.swTimer # 0
    /\ timers[sw.swTimer] = [st |-> "dead", fn |-> "runHigh"]
    /\ pin.nHigh = par.bursts /\ pin.nLow = par.bursts /\ pin.level = "LOW"
    /\ sw.burstCount = par.bursts
    /\ Alive(timers) = {}

\* C31: a software backend with duty cycle exactly 0 or exactly 1, between
\* start() and stop(): no timer is created, at duty cycle 0 the pin is never
\* written HIGH, and at duty cycle 1 it is never written LOW
C31_ConstantLevel ==
    IsSW /\ par.dutyCycle \in {0, PerMille} /\ ops.stop = 0 =>
        /\ \A t \in TimerIds : timers[t].st \notin {"new", "armed"}
        /\ par.dutyCycle = 0 => pin.nHigh = 0
        /\ par.dutyCycle = PerMille => pin.nLow = 0

\* C32: the dutyCycle setter of the software backend, given a valid duty
\* cycle: called while a burst is in flight it fails with the GPIOError
\* 'Cannot set duty cycle during a burst' and leaves the duty cycle as it
\* was; called in any other state it returns normally and the duty cycle is
\* stored
C32_DutyCycleGuard ==
    IsSW /\ Returned("dutyCycle") /\ DutyCycleOk(NormalizeDutyCycle(res.n)) =>
        IF par.bursts > 0 /\ ~ res.idle0
        THEN /\ res.err = "GPIOError_burst"
             /\ par.dutyCycle = res.par0.dutyCycle
        ELSE /\ res.err = "none"
             /\ par.dutyCycle = NormalizeDutyCycle(res.n)

\* the constructor of a hardware backend has returned normally and nothing
\* has been called since
JustConstructedHW ==
    /\ IsHW
    /\ pc[0] = "idle"
    /\ res.op = "construct" /\ res.err = "none"

\* C33: after the successful construction of a hardware backend the channel
\* is at rest, enable 0 and duty_cycle 0, whatever the channel's entries
\* held before (also when the channel directory existed already with a
\* nonzero duty cycle)
C33_RestAfterConstruction ==
    JustConstructedHW => dev.enable = 0 /\ dev.duty_cycle = 0

\* C34: when the channel directory is absent after the export write and the
\* settle delay, the constructor makes the creation attempt once more, and
\* fails with the GPIOError 'Did not create device' only when the directory
\* is still absent after this second attempt
C34_CreationRetriedOnce ==
    /\ pc[0] = "idle"
    /\ res.op = "construct" /\ res.err = "GPIOError_device"
    => dev.exports = 2

\* the backend exists and its bursts property reads None
ReadsContinuous == obj # "none" /\ burstsGet(par) = NoneVal

\* C36: a burst count of None, of zero or of any value that is not positive
\* means continuous operation on both backends: the backend is constructed
\* and its bursts property reads None, the software backend does not set its
\* done flag before stop() is called, and the hardware backend creates no
\* burst timer
C36_ContinuousOperation ==
    /\ pc[0] = "idle" /\ res.op = "construct"
         /\ (res.val = NoneVal \/ res.val <= 0)
       => /\ res.err \notin {"GPIOError_burstFrequency", "GPIOError_burstTime"}
          /\ res.err = "none" => ReadsContinuous
    /\ ReadsContinuous /\ IsSW /\ ops.stop = 0 => ~ sw.done
    /\ ReadsContinuous /\ IsHW =>
           /\ hw.burstTimer = 0
           /\ \A t \in TimerIds : timers[t].st = "free"

\* the controller's capability query sent the line to the hardware backend
RoutedToHardware == ctrl.probed /\ ctrl.selected = "_HWPulse"

\* C35: every line the capability query routes to the hardware backend has
\* a PWM channel: on a Raspberry Pi 5 and on another Raspberry Pi, for each
\* line of the hardware-PWM line set ({12, 13} or {18, 19}), the
\* line-to-channel mapping yields an allowed channel index, and the
\* construction the controller forwards to the hardware backend never ends
\* with the GPIOError 'Wrong GPIO line specified'
C35_RoutedLineHasChannel ==
    /\ \A line \in hwPWMlines(env).lines :
           lineToPWMChannel(env, line) \in allowedList(env)
    /\ RoutedToHardware =>
           /\ res.op = "construct" => res.err # "GPIOError_line"
           /\ obj # "none" =>
                  /\ hw.channel = lineToPWMChannel(env, ctrl.target.line)
                  /\ hw.channel \in {0, 1, 2, 3}

\* the controller on a Raspberry Pi 5 has been constructed for line 19 and
\* its hardware backend, on channel 3, has been started
C35_Witness ==
    /\ env.pi5 /\ RoutedToHardware
    /\ ctrl.exists /\ ctrl.target.line = 19
    /\ hw.channel = 3
    /\ Returned("start") /\ res.err = "none"

\* the value the controller's dutyCycle setter was given, with a percentage
\* above 1 and up to 100 divided by 100, lies in [0, 1]
ValidForController ==
    LET val == IF IsPercentage(call.n) THEN call.n \div 100 ELSE call.n
    IN  val >= 0 /\ val <= PerMille

\* C37: the dutyCycle setter of the controller validates before it forwards:
\* for a value outside [0, 1] after the percentage normalisation the
\* controller raises GPIOError and returns without entering the backend's
\* setter, so the backend's parameters, the pin and the device are as they
\* were; for a valid value the backend's setter is entered with the
\* normalised value, which lies in [0, 1]
C37_ValidateBeforeForward ==
    [][pc[0] = "PD1" =>
          IF ValidForController
          THEN /\ pc'[0] = IF IsSW THEN "SD1" ELSE "D1"
               /\ call'.val >= 0 /\ call'.val <= PerMille
               /\ call'.val = NormalizeDutyCycle(call.n)
          ELSE /\ pc'[0] = "idle"
               /\ res'.op = "dutyCycle" /\ res'.err = "GPIOError_dutyCycle"
               /\ UNCHANGED << par, sw, pin, hw, dev, timers >>]_vars

\* the controller of a hardware backend has rejected dutyCycle = 150, and
\* the channel has seen no write but the constructor's
C37_Witness ==
    /\ ctrl.exists /\ IsHW
    /\ Returned("dutyCycle")
    /\ res.n = 150 * PerMille
    /\ res.err = "GPIOError_dutyCycle"
    /\ par = res.par0
    /\ Len(dev.log) = 1

=============================================================================
